---- MODULE Spec2Model ----
(***************************************************************************)
(* The Figma CSS-to-component transpiler (src/src/lib/figma-css-parser.ts) *)
(* and the memoized parser of src/src/lib/performance.ts.                  *)
(*                                                                         *)
(* A JavaScript string is a sequence of one-character strings, so that     *)
(* every regular expression, split, trim and replace of the source is      *)
(* computed character by character.  The value `undefined' is the          *)
(* one-element sequence UNDEF, which no text can equal.                    *)
(*                                                                         *)
(* A value that a function of the source computes once and reads several   *)
(* times is passed on as a parameter of a second operator.                 *)
(***************************************************************************)
EXTENDS Integers, Sequences, FiniteSets, TLC

VARIABLES
    css,        \* the text handed to the entry point
    entry,      \* the entry point the caller invoked
    pc,         \* where the caller is: idle, submitted, named, parsed, threw, done
    name,       \* the component name of the last call of the namer
    rules,      \* the array `rules' of the last call of parseCssRules (line 298)
    parsed,     \* the ParsedCSS the entry point returned
    generated,  \* the GeneratedComponent the emitter returned
    seen,       \* per text, the first GeneratedComponent a caller observed for it
    memoCache,  \* performance.ts line 33: the module-level Map of memoize
    memoInput,  \* the argument of the last call of optimizedCssParser
    memoResult, \* what that call returned
    inference,  \* the selector handed to inferElementType and what it returned
    jobs,       \* storage.ts line 71: processingJobs, by job id
    tasks,      \* per job id, how many progress updates its setTimeout callback has made
    response,   \* the last response a route of the server sent
    hook,       \* FigmaUrlTab and its useJobPolling: currentJobId, isPolling, what the last
                \* render saw of them, and the job id of the interval that is set
    polls       \* per job id, the getJob requests issued and in flight, the calls of
                \* onComplete, and whether a poll has seen the job settled

memo == <<memoCache, memoInput, memoResult>>
pipeline == <<css, entry, pc, name, rules, parsed, generated, seen, memo>>
server == <<jobs, tasks, response>>
client == <<hook, polls>>
elsewhere == <<inference, server, client>>
vars == <<pipeline, elsewhere>>

\* ------------------------------------------------------------------ characters

LowerSeq == <<"a","b","c","d","e","f","g","h","i","j","k","l","m","n","o","p","q","r","s","t","u","v","w",
        "x","y","z">>
UpperSeq == <<"A","B","C","D","E","F","G","H","I","J","K","L","M","N","O","P","Q","R","S","T","U","V","W",
        "X","Y","Z">>
DigitSeq == <<"0","1","2","3","4","5","6","7","8","9">>

Range(f) == {f[i] : i \in DOMAIN f}

Letters == Range(LowerSeq) \cup Range(UpperSeq)
Alnum == Letters \cup Range(DigitSeq)
\* \w of a JavaScript regular expression
WordChars == Alnum \cup {"_"}
\* [a-zA-Z0-9-_] and [\w-]
ClassChars == WordChars \cup {"-"}
\* \s of a regular expression, and what String.prototype.trim removes: of these, the
\* characters that occur in the texts
Ws == {" ", "\n", "\t"}

IsAlnum(c) == c \in Alnum

CaseMap(c, from, to) ==
    IF \E i \in 1..Len(from) : from[i] = c
    THEN to[CHOOSE i \in 1..Len(from) : from[i] = c]
    ELSE c

ToUpperChar(c) == CaseMap(c, LowerSeq, UpperSeq)
ToLowerChar(c) == CaseMap(c, UpperSeq, LowerSeq)

UNDEF == <<"undefined">>

\* ------------------------------------------------------------------ strings

MinOf(S) == CHOOSE x \in S : \A y \in S : x <= y
MaxOf(S) == CHOOSE x \in S : \A y \in S : y <= x
MinOrZero(S) == IF S = {} THEN 0 ELSE MinOf(S)

MapSeq(s, Op(_)) == [i \in 1..Len(s) |-> Op(s[i])]

\* s from its first to its last index in keep, empty when keep is
Between(s, keep) == IF keep = {} THEN <<>> ELSE SubSeq(s, MinOf(keep), MaxOf(keep))

\* String.prototype.trim
Trim(s) == Between(s, {i \in 1..Len(s) : s[i] \notin Ws})

\* pat occurs in s at index i (1-based)
MatchAt(s, i, pat) ==
    /\ i >= 1
    /\ i + Len(pat) - 1 <= Len(s)
    /\ \A k \in 1..Len(pat) : s[i + k - 1] = pat[k]

\* String.prototype.includes
Includes(s, pat) == \E i \in 1..(Len(s) + 1) : MatchAt(s, i, pat)

\* String.prototype.startsWith / endsWith
StartsWith(s, pat) == MatchAt(s, 1, pat)
EndsWith(s, pat) == MatchAt(s, Len(s) - Len(pat) + 1, pat)

\* String.prototype.indexOf from a position, 1-based; 0 when absent
IndexFrom(s, pat, from) == MinOrZero({i \in from..Len(s) : MatchAt(s, i, pat)})

\* the index of the first character at or after `from' that is in chars, or that is not;
\* 0 when there is none
FirstIn(s, from, chars) == MinOrZero({i \in from..Len(s) : s[i] \in chars})
FirstNotIn(s, from, chars) == MinOrZero({i \in from..Len(s) : s[i] \notin chars})

\* String.prototype.split on a one-character separator
RECURSIVE Split(_, _)
Split(s, ch) ==
    LET k == FirstIn(s, 1, {ch})
    IN  IF k = 0 THEN <<s>>
        ELSE <<SubSeq(s, 1, k - 1)>> \o Split(SubSeq(s, k + 1, Len(s)), ch)

\* Array.prototype.join
RECURSIVE Join(_, _)
Join(parts, sep) ==
    IF parts = <<>> THEN <<>>
    ELSE IF Len(parts) = 1 THEN parts[1]
    ELSE parts[1] \o sep \o Join(Tail(parts), sep)

\* the text of `${x}' in a template literal
Str(x) == IF x = UNDEF THEN <<"u","n","d","e","f","i","n","e","d">> ELSE x

\* x || d for a string x
OrDefault(x, d) == IF x = <<>> THEN d ELSE x

\* ------------------------------------------------------------------ Component Namer

MaxNameLen == 50

FigmaComponent == <<"F","i","g","m","a","C","o","m","p","o","n","e","n","t">>
FigmaButton == <<"F","i","g","m","a","B","u","t","t","o","n">>

\* .replace(/^[^a-zA-Z]/, '')
DropLeadingNonLetter(a) == IF a # <<>> /\ a[1] \notin Letters THEN Tail(a) ELSE a

\* .replace(/^\w/, c => c.toUpperCase())
UpperFirst(b) == IF b # <<>> /\ b[1] \in WordChars THEN <<ToUpperChar(b[1])>> \o Tail(b) ELSE b

\* .replace(/[^a-zA-Z0-9]/g, '').replace(/^[^a-zA-Z]/, '').replace(/^\w/, c => c.toUpperCase())
SanitizeRaw(raw) == UpperFirst(DropLeadingNonLetter(SelectSeq(raw, IsAlnum)))

\* ... || "FigmaComponent"
SanitizeName(raw) == OrDefault(SanitizeRaw(raw), FigmaComponent)

\* The capture group of /\/\*\s*([^*\n]+)\s*\*\// on the text between "/*" and "*/".
\* \s* is greedy and gives characters back only when nothing is left for the capture,
\* which then starts at the last character that is not a line break; the capture runs
\* up to the next line break, and what follows it must be white space.
NameCapture(inner) ==
    LET p == FirstNotIn(inner, 1, Ws)
        noBreak == {i \in 1..Len(inner) : inner[i] # "\n"}
        start == IF p # 0 THEN p ELSE IF noBreak = {} THEN 0 ELSE MaxOf(noBreak)
        brk == IF start = 0 THEN 0 ELSE FirstIn(inner, start, {"\n"})
        stop == IF brk = 0 THEN Len(inner) ELSE brk - 1
    IN  [ok |-> start # 0 /\ \A i \in (stop + 1)..Len(inner) : inner[i] \in Ws,
         text |-> IF start = 0 THEN <<>> ELSE SubSeq(inner, start, stop)]

\* the regular expression tried at index i.  Neither \s nor [^*\n] takes a '*', so the
\* closing "*/" is at the first '*' after the opening "/*".
NameCommentAt(s, i) ==
    LET k == FirstIn(s, i + 2, {"*"})
    IN  /\ MatchAt(s, i, <<"/","*">>)
        /\ k # 0
        /\ MatchAt(s, k, <<"*","/">>)
        /\ NameCapture(SubSeq(s, i + 2, k - 1)).ok

\* css.match(/\/\*\s*([^*\n]+)\s*\*\//g): the matches from left to right, not overlapping
RECURSIVE AllNameComments(_, _)
AllNameComments(s, from) ==
    LET i == MinOrZero({j \in from..Len(s) : NameCommentAt(s, j)})
        k == FirstIn(s, i + 2, {"*"})
    IN  IF i = 0 THEN <<>>
        ELSE <<[text |-> SubSeq(s, i, k + 1),
                capture |-> NameCapture(SubSeq(s, i + 2, k - 1)).text]>>
             \o AllNameComments(s, k + 2)

\* comment.replace(/\/\*\s*|\s*\*\//g, '')
RECURSIVE StripCommentMarkers(_, _)
StripCommentMarkers(s, i) ==
    LET n == FirstNotIn(s, i, Ws)
    IN  IF i > Len(s) THEN <<>>
        ELSE IF MatchAt(s, i, <<"/","*">>)
        THEN (IF FirstNotIn(s, i + 2, Ws) = 0 THEN <<>>
              ELSE StripCommentMarkers(s, FirstNotIn(s, i + 2, Ws)))
        ELSE IF n # 0 /\ MatchAt(s, n, <<"*","/">>) THEN StripCommentMarkers(s, n + 2)
        ELSE <<s[i]>> \o StripCommentMarkers(s, i + 1)

\* the filter of the first comment (lines 252-256)
FirstCommentUsable(componentName) ==
    /\ ~Includes(componentName, <<"A","u","t","o"," ","l","a","y","o","u","t">>)
    /\ ~Includes(componentName, <<"I","n","s","i","d","e"," ","a","u","t","o"," ","l","a","y","o","u","t">>)
    /\ ~Includes(componentName, <<"i","n","p","u","t","-","l","i","g","h","t">>)
    /\ ~Includes(componentName, <<"d","e","p","t","h","-","l","i","g","h","t">>)
    /\ componentName # <<"b","u","t","t","o","n">>

\* the filter of the scan over all comments (lines 269-273)
AnyCommentUsable(nm) ==
    /\ nm # <<>>
    /\ ~Includes(nm, <<"A","u","t","o"," ","l","a","y","o","u","t">>)
    /\ ~Includes(nm, <<"I","n","s","i","d","e">>)
    /\ ~Includes(nm, <<"i","d","e","n","t","i","c","a","l">>)
    /\ Len(nm) < MaxNameLen

\* css.match(/\.([a-zA-Z][a-zA-Z0-9-_]*)/g)[0].replace('.', ''): the first '.' that a letter
\* follows, and the run after it; undefined when there is no match
FirstClass(s) ==
    LET i == MinOrZero({j \in 1..(Len(s) - 1) : s[j] = "." /\ s[j + 1] \in Letters})
        e == FirstNotIn(s, i + 1, ClassChars)
    IN  IF i = 0 THEN UNDEF ELSE SubSeq(s, i + 1, IF e = 0 THEN Len(s) ELSE e - 1)

\* word.charAt(0).toUpperCase() + word.slice(1)
Capitalize(word) == IF word = <<>> THEN <<>> ELSE <<ToUpperChar(word[1])>> \o Tail(word)

\* lines 283-291
NameFromClass(firstClass) ==
    IF firstClass # UNDEF
    THEN Join(MapSeq(Split(firstClass, "-"), Capitalize), <<>>)
    ELSE FigmaButton

\* const name = comment.replace(/\/\*\s*|\s*\*\//g, '').trim()
NameOfComment(comment) == Trim(StripCommentMarkers(comment.text, 1))

\* lines 265-291, usable being the comments that pass the filter
NameFromScan(s, all, usable) ==
    IF usable # {}
    THEN SanitizeName(NameOfComment(all[MinOf(usable)]))
    ELSE NameFromClass(FirstClass(s))

\* lines 247-262, all being the comments of the text
NameFrom(s, all) ==
    IF all # <<>> /\ FirstCommentUsable(Trim(all[1].capture))
    THEN SanitizeName(Trim(all[1].capture))
    ELSE NameFromScan(s, all, {i \in 1..Len(all) : AnyCommentUsable(NameOfComment(all[i]))})

\* lines 245-292
ExtractComponentNameFromCss(s) == NameFrom(s, AllNameComments(s, 1))

\* ------------------------------------------------------------------ Declaration Parser

KeepSemicolon(v) == v

\* value.replace(/;$/, '')
StripSemicolon(v) == IF v # <<>> /\ v[Len(v)] = ";" THEN SubSeq(v, 1, Len(v) - 1) ELSE v

\* lines 386-391 and 403-408: the pending property is saved when both parts are non-empty
PushPending(decls, prop, val) ==
    IF prop # <<>> /\ val # <<>>
    THEN Append(decls, [property |-> Trim(prop), value |-> Trim(StripSemicolon(val))])
    ELSE decls

\* the loop of extractDeclarationsFromBlock over lines[i..], with its three locals
RECURSIVE BlockLines(_, _, _, _, _)
BlockLines(lines, i, decls, prop, val) ==
    LET t == Trim(lines[i])
        colonIndex == IndexFrom(t, <<":">>, 1)
    IN  IF i > Len(lines) THEN PushPending(decls, prop, val)
        ELSE IF StartsWith(t, <<"/","*">>) \/ EndsWith(t, <<"*","/">>) \/ t = <<>>
        THEN BlockLines(lines, i + 1, decls, prop, val)
        ELSE IF Includes(t, <<":">>) /\ ~StartsWith(t, <<"/","*">>)
        THEN BlockLines(lines, i + 1, PushPending(decls, prop, val),
                        Trim(SubSeq(t, 1, colonIndex - 1)),
                        Trim(SubSeq(t, colonIndex + 1, Len(t))))
        ELSE IF val # <<>>
        THEN BlockLines(lines, i + 1, decls, prop, val \o <<" ">> \o t)
        ELSE BlockLines(lines, i + 1, decls, prop, val)

\* lines 367-411
ExtractDeclarationsFromBlock(cssBlock) == BlockLines(Split(cssBlock, "\n"), 1, <<>>, <<>>, <<>>)

NotBlank(decl) == Trim(decl) # <<>>

\* const [property, value] = decl.split(':').map(s => s.trim())
DeclOf(decl) ==
    LET parts == MapSeq(Split(decl, ":"), Trim)
    IN  [property |-> parts[1], value |-> IF Len(parts) >= 2 THEN parts[2] ELSE UNDEF]

\* lines 416-423
ParseDeclarations(declarations) == MapSeq(SelectSeq(Split(declarations, ";"), NotBlank), DeclOf)

\* ------------------------------------------------------------------ Comment-Block Splitter

\* /\/\*\s*([^*]+)\s*\*\//g tried at index i: "/*", a non-empty stretch without '*', "*/"
BlockCommentAt(s, i) ==
    LET k == FirstIn(s, i + 2, {"*"})
    IN  MatchAt(s, i, <<"/","*">>) /\ k > i + 2 /\ MatchAt(s, k, <<"*","/">>)

\* the capture group: the greedy \s* takes the leading white space, the capture the rest;
\* when all of it is white space the capture is left its last character
BlockCapture(inner) ==
    LET p == FirstNotIn(inner, 1, Ws)
    IN  SubSeq(inner, IF p = 0 THEN Len(inner) ELSE p, Len(inner))

\* css.split(commentRegex): text, capture, text, capture, ..., text
RECURSIVE SplitComments(_, _)
SplitComments(s, from) ==
    LET i == MinOrZero({j \in from..Len(s) : BlockCommentAt(s, j)})
        k == FirstIn(s, i + 2, {"*"})
    IN  IF i = 0 THEN <<SubSeq(s, from, Len(s))>>
        ELSE <<SubSeq(s, from, i - 1), BlockCapture(SubSeq(s, i + 2, k - 1))>>
             \o SplitComments(s, k + 2)

OnlyInsideIsNoise(componentName) == Includes(componentName, <<"I","n","s","i","d","e"," ","a","u","t","o",
        " ","l","a","y","o","u","t">>)

\* line 341: the two phrases that mark a label as noise
NoisyLabel(componentName) ==
    Includes(componentName, <<"A","u","t","o"," ","l","a","y","o","u",
            "t">>) \/ Includes(componentName, <<"I","n","s","i","d","e"," ","a","u","t","o"," ","l","a","y",
            "o","u","t">>)

\* .replace(/[^a-zA-Z0-9]/g, '-').replace(/^-+|-+$/g, '').toLowerCase()
DashChar(c) == IF c \in Alnum THEN ToLowerChar(c) ELSE "-"
ClassNameOf(componentName) ==
    LET d == MapSeq(componentName, DashChar)
    IN  Between(d, {i \in 1..Len(d) : d[i] # "-"})

\* lines 341-357: the block of a label and the text after it, or no block
BlockFrom(componentName, cssContent) ==
    LET declarations == ExtractDeclarationsFromBlock(cssContent)
    IN  IF /\ cssContent # <<>> /\ componentName # <<>> /\ ~NoisyLabel(componentName)
           /\ Len(declarations) > 0
        THEN <<[selector |-> <<".">> \o ClassNameOf(componentName),
                declarations |-> declarations,
                figmaComponent |-> componentName]>>
        ELSE <<>>

\* the loop of line 337 over the labels parts[i], i = 1, 3, ... (here 2, 4, ...), with
\* lines 338-339
RECURSIVE BlocksFrom(_, _)
BlocksFrom(parts, i) ==
    IF i > Len(parts) THEN <<>>
    ELSE BlockFrom(Trim(parts[i]), IF i + 1 <= Len(parts) THEN Trim(parts[i + 1]) ELSE <<>>)
         \o BlocksFrom(parts, i + 2)

\* lines 330-362
ParseFigmaCssBlocks(s) == BlocksFrom(SplitComments(s, 1), 2)

\* ------------------------------------------------------------------ rules

\* /([^{]+)\s*\{([^}]+)\}/g tried at index i: a non-empty run without '{' up to the next
\* '{', then a non-empty body up to the next '}'
RuleAt(s, i) ==
    LET o == FirstIn(s, i, {"{"})
    IN  s[i] # "{" /\ o # 0 /\ FirstIn(s, o + 1, {"}"}) > o + 1

\* line 312
RealSelector(selector) ==
    /\ ~StartsWith(selector, <<"/","*">>)
    /\ Includes(selector, <<".">>) \/ Includes(selector, <<"#">>) \/ Includes(selector, <<":",":">>)

\* lines 308-318
RuleOf(selector, declarations) ==
    IF RealSelector(selector)
    THEN <<[selector |-> selector,
            declarations |-> ParseDeclarations(declarations),
            figmaComponent |-> UNDEF]>>
    ELSE <<>>

\* the exec loop of parseCssRules (lines 307-319) from lastIndex
RECURSIVE RealRules(_, _)
RealRules(s, from) ==
    LET i == MinOrZero({j \in from..Len(s) : RuleAt(s, j)})
        o == FirstIn(s, i, {"{"})
        c == FirstIn(s, o + 1, {"}"})
    IN  IF i = 0 THEN <<>>
        ELSE RuleOf(Trim(SubSeq(s, i, o - 1)), Trim(SubSeq(s, o + 1, c - 1)))
             \o RealRules(s, c + 1)

StaleRules == rules

\* line 298: const rules = [], a new array at every call
NewRules == <<>>

BlocksThenRules(scanned, figmaBlocks) == figmaBlocks \o scanned

\* line 322: rules.push(...figmaBlocks) after the rules of the scan
RulesThenBlocks(scanned, figmaBlocks) == scanned \o figmaBlocks

\* lines 297-325
ParseCssRules(s) == RulesThenBlocks(NewRules \o RealRules(s, 1), ParseFigmaCssBlocks(s))

\* ------------------------------------------------------------------ Tailwind Translator

\* lines 563-596
TailwindMap ==
    << [decl |-> <<"d","i","s","p","l","a","y",":"," ","f","l","e","x">>, cls |-> <<"f","l","e","x">>],
       [decl |-> <<"d","i","s","p","l","a","y",":"," ","b","l","o","c","k">>, cls |-> <<"b","l","o","c",
               "k">>],
       [decl |-> <<"d","i","s","p","l","a","y",":"," ","i","n","l","i","n","e">>, cls |-> <<"i","n","l","i",
               "n","e">>],
       [decl |-> <<"d","i","s","p","l","a","y",":"," ","i","n","l","i","n","e","-","b","l","o","c",
               "k">>, cls |-> <<"i","n","l","i","n","e","-","b","l","o","c","k">>],
       [decl |-> <<"d","i","s","p","l","a","y",":"," ","g","r","i","d">>, cls |-> <<"g","r","i","d">>],
       [decl |-> <<"f","l","e","x","-","d","i","r","e","c","t","i","o","n",":"," ","c","o","l","u","m",
               "n">>, cls |-> <<"f","l","e","x","-","c","o","l">>],
       [decl |-> <<"f","l","e","x","-","d","i","r","e","c","t","i","o","n",":"," ","r","o",
               "w">>, cls |-> <<"f","l","e","x","-","r","o","w">>],
       [decl |-> <<"j","u","s","t","i","f","y","-","c","o","n","t","e","n","t",":"," ","c","e","n","t","e",
               "r">>, cls |-> <<"j","u","s","t","i","f","y","-","c","e","n","t","e","r">>],
       [decl |-> <<"j","u","s","t","i","f","y","-","c","o","n","t","e","n","t",":"," ","s","p","a","c","e",
               "-","b","e","t","w","e","e","n">>, cls |-> <<"j","u","s","t","i","f","y","-","b","e","t","w",
               "e","e","n">>],
       [decl |-> <<"j","u","s","t","i","f","y","-","c","o","n","t","e","n","t",":"," ","f","l","e","x","-",
               "s","t","a","r","t">>, cls |-> <<"j","u","s","t","i","f","y","-","s","t","a","r","t">>],
       [decl |-> <<"j","u","s","t","i","f","y","-","c","o","n","t","e","n","t",":"," ","f","l","e","x","-",
               "e","n","d">>, cls |-> <<"j","u","s","t","i","f","y","-","e","n","d">>],
       [decl |-> <<"a","l","i","g","n","-","i","t","e","m","s",":"," ","c","e","n","t","e",
               "r">>, cls |-> <<"i","t","e","m","s","-","c","e","n","t","e","r">>],
       [decl |-> <<"a","l","i","g","n","-","i","t","e","m","s",":"," ","f","l","e","x","-","s","t","a","r",
               "t">>, cls |-> <<"i","t","e","m","s","-","s","t","a","r","t">>],
       [decl |-> <<"a","l","i","g","n","-","i","t","e","m","s",":"," ","f","l","e","x","-","e","n",
               "d">>, cls |-> <<"i","t","e","m","s","-","e","n","d">>],
       [decl |-> <<"t","e","x","t","-","a","l","i","g","n",":"," ","c","e","n","t","e","r">>, cls |-> <<"t",
               "e","x","t","-","c","e","n","t","e","r">>],
       [decl |-> <<"t","e","x","t","-","a","l","i","g","n",":"," ","l","e","f","t">>, cls |-> <<"t","e","x",
               "t","-","l","e","f","t">>],
       [decl |-> <<"t","e","x","t","-","a","l","i","g","n",":"," ","r","i","g","h","t">>, cls |-> <<"t","e",
               "x","t","-","r","i","g","h","t">>],
       [decl |-> <<"f","o","n","t","-","w","e","i","g","h","t",":"," ","b","o","l","d">>, cls |-> <<"f","o",
               "n","t","-","b","o","l","d">>],
       [decl |-> <<"f","o","n","t","-","w","e","i","g","h","t",":"," ","6","0","0">>, cls |-> <<"f","o","n",
               "t","-","s","e","m","i","b","o","l","d">>],
       [decl |-> <<"f","o","n","t","-","w","e","i","g","h","t",":"," ","5","0","0">>, cls |-> <<"f","o","n",
               "t","-","m","e","d","i","u","m">>],
       [decl |-> <<"f","o","n","t","-","w","e","i","g","h","t",":"," ","4","0","0">>, cls |-> <<"f","o","n",
               "t","-","n","o","r","m","a","l">>],
       [decl |-> <<"f","o","n","t","-","w","e","i","g","h","t",":"," ","3","0","0">>, cls |-> <<"f","o","n",
               "t","-","l","i","g","h","t">>],
       [decl |-> <<"p","o","s","i","t","i","o","n",":"," ","r","e","l","a","t","i","v","e">>, cls |-> <<"r",
               "e","l","a","t","i","v","e">>],
       [decl |-> <<"p","o","s","i","t","i","o","n",":"," ","a","b","s","o","l","u","t","e">>, cls |-> <<"a",
               "b","s","o","l","u","t","e">>],
       [decl |-> <<"p","o","s","i","t","i","o","n",":"," ","f","i","x","e","d">>, cls |-> <<"f","i","x","e",
               "d">>],
       [decl |-> <<"p","o","s","i","t","i","o","n",":"," ","s","t","i","c","k","y">>, cls |-> <<"s","t","i",
               "c","k","y">>],
       [decl |-> <<"o","v","e","r","f","l","o","w",":"," ","h","i","d","d","e","n">>, cls |-> <<"o","v","e",
               "r","f","l","o","w","-","h","i","d","d","e","n">>],
       [decl |-> <<"o","v","e","r","f","l","o","w",":"," ","a","u","t","o">>, cls |-> <<"o","v","e","r","f",
               "l","o","w","-","a","u","t","o">>],
       [decl |-> <<"b","o","r","d","e","r","-","r","a","d","i","u","s",":"," ","5","0","%">>, cls |-> <<"r",
               "o","u","n","d","e","d","-","f","u","l","l">>],
       [decl |-> <<"c","u","r","s","o","r",":"," ","p","o","i","n","t","e","r">>, cls |-> <<"c","u","r","s",
               "o","r","-","p","o","i","n","t","e","r">>],
       [decl |-> <<"b","o","x","-","s","i","z","i","n","g",":"," ","b","o","r","d","e","r","-","b","o",
               "x">>, cls |-> <<>>],
       [decl |-> <<"i","s","o","l","a","t","i","o","n",":"," ","i","s","o","l","a","t","e">>, cls |-> <<"i",
               "s","o","l","a","t","e">>] >>

\* tailwindMap[cssDecl], undefined when the key is absent
TailwindLookup(cssDecl) ==
    LET i == MinOrZero({j \in 1..Len(TailwindMap) : TailwindMap[j].decl = cssDecl})
    IN  IF i = 0 THEN UNDEF ELSE TailwindMap[i].cls

\* line 604: `${decl.property}: ${decl.value}`
CssDeclOf(decl) == Str(decl.property) \o <<":"," ">> \o Str(decl.value)

\* every declaration of every rule, in rule order
RECURSIVE AllDeclarations(_)
AllDeclarations(cssRules) ==
    IF cssRules = <<>> THEN <<>>
    ELSE cssRules[1].declarations \o AllDeclarations(Tail(cssRules))

\* a method call on decl.value throws a TypeError when the value is undefined
\* (lines 612, 622, 645)
TailwindThrows(decl) ==
    /\ decl.value = UNDEF
    /\ decl.property \in {<<"b","o","r","d","e","r","-","r","a","d","i","u","s">>, <<"p","a","d","d","i",
            "n","g">>, <<"b","a","c","k","g","r","o","u","n","d">>}

\* what one declaration adds to mainClasses (lines 604-636)
ClassesOf(decl) ==
    LET hit == TailwindLookup(CssDeclOf(decl))
        paddingValues == Len(Split(decl.value, " "))
    IN  IF hit # UNDEF /\ hit # <<>> THEN hit \o <<" ">>
        ELSE IF decl.property = <<"b","o","r","d","e","r","-","r","a","d","i","u","s">>
        THEN (IF Includes(decl.value, <<"1","0","0","p","x">>) THEN <<"r","o","u","n","d","e","d","-","f",
                "u","l","l"," ">>
              ELSE IF Includes(decl.value, <<"9","0","p","x">>) THEN <<"r","o","u","n","d","e","d","-","f",
                      "u","l","l"," ">>
              ELSE <<"r","o","u","n","d","e","d","-","l","g"," ">>)
        ELSE IF decl.property = <<"p","a","d","d","i","n","g">>
        THEN (IF paddingValues = 1 THEN <<"p","-","4"," ">>
              ELSE IF paddingValues = 2 THEN <<"p","y","-","3"," ","p","x","-","6"," ">>
              ELSE <<>>)
        ELSE IF decl.property = <<"g","a","p">>
        THEN (IF decl.value = <<"1","0","p","x">> THEN <<"g","a","p","-","2",".","5"," ">>
              ELSE IF decl.value = <<"8","p","x">> THEN <<"g","a","p","-","2"," ">>
              ELSE <<>>)
        ELSE <<>>

\* a translator that keeps every declaration without a class as a custom style
RetainUnmapped(decl) == IF ClassesOf(decl) # <<>> THEN <<>> ELSE <<CssDeclOf(decl)>>

\* what one declaration adds to customStyles (lines 638-658)
CustomStylesOf(decl) ==
    LET hit == TailwindLookup(CssDeclOf(decl))
    IN  IF hit # UNDEF /\ hit # <<>> THEN <<>>
        ELSE IF decl.property \in {<<"w","i","d","t","h">>, <<"h","e","i","g","h",
                "t">>} THEN <<CssDeclOf(decl)>>
        ELSE IF decl.property = <<"b","a","c","k","g","r","o","u","n","d">>
        THEN (IF StartsWith(decl.value, <<"#">>)
              THEN <<<<"b","a","c","k","g","r","o","u","n","d","-","c","o","l","o","r",":",
                      " ">> \o Str(decl.value)>>
              ELSE <<<<"b","a","c","k","g","r","o","u","n","d",":"," ">> \o Str(decl.value)>>)
        ELSE IF decl.property = <<"b","o","x","-","s","h","a","d","o","w">> THEN <<<<"b","o","x","-","s",
                "h","a","d","o","w",":"," ">> \o Str(decl.value)>>
        ELSE IF decl.property = <<"b","a","c","k","d","r","o","p","-","f","i","l","t","e","r">>
        THEN <<<<"b","a","c","k","d","r","o","p","-","f","i","l","t","e","r",":"," ">> \o Str(decl.value)>>
        ELSE <<>>

\* a translator that appends a class only when the string does not hold it yet
RECURSIVE DedupFold(_, _, _, _)
DedupFold(decls, i, mainClasses, customStyles) ==
    IF i > Len(decls)
    THEN [threw |-> FALSE, main |-> Trim(mainClasses), customStyles |-> customStyles]
    ELSE IF TailwindThrows(decls[i])
    THEN [threw |-> TRUE, main |-> <<>>, customStyles |-> <<>>]
    ELSE DedupFold(decls, i + 1,
                   IF Includes(mainClasses, ClassesOf(decls[i])) THEN mainClasses
                   ELSE mainClasses \o ClassesOf(decls[i]),
                   customStyles \o CustomStylesOf(decls[i]))

\* lines 598-668: the two forEach loops, then the returned object
RECURSIVE TailwindFold(_, _, _, _)
TailwindFold(decls, i, mainClasses, customStyles) ==
    IF i > Len(decls)
    THEN [threw |-> FALSE, main |-> Trim(mainClasses), customStyles |-> customStyles]
    ELSE IF TailwindThrows(decls[i])
    THEN [threw |-> TRUE, main |-> <<>>, customStyles |-> <<>>]
    ELSE TailwindFold(decls, i + 1, mainClasses \o ClassesOf(decls[i]),
                      customStyles \o CustomStylesOf(decls[i]))

ConvertCssToTailwind(cssRules) == TailwindFold(AllDeclarations(cssRules), 1, <<>>, <<>>)

\* ------------------------------------------------------------------ layout type and tokens

\* lines 755-761: what one declaration decides, "none" when nothing
LayoutOf(decl) ==
    IF decl.property = <<"d","i","s","p","l","a","y">> /\ decl.value = <<"f","l","e","x">> THEN "flexbox"
    ELSE IF decl.property = <<"d","i","s","p","l","a","y">> /\ decl.value = <<"g","r","i","d">> THEN "grid"
    ELSE IF decl.property = <<"p","o","s","i","t","i","o","n">> /\ decl.value = <<"a","b","s","o","l","u",
            "t","e">> THEN "absolute"
    ELSE "none"

\* a detector where display: flex and display: grid win over position: absolute
FlexGridFirst(cssRules) ==
    LET decls == AllDeclarations(cssRules)
        i == MinOrZero({j \in 1..Len(decls) : LayoutOf(decls[j]) \in {"flexbox", "grid"}})
        k == MinOrZero({j \in 1..Len(decls) : LayoutOf(decls[j]) = "absolute"})
    IN  IF i # 0 THEN LayoutOf(decls[i]) ELSE IF k # 0 THEN "absolute" ELSE "static"

\* lines 751-766: the first declaration in scan order that decides
DetectLayoutTypeFromRules(cssRules) ==
    LET decls == AllDeclarations(cssRules)
        i == MinOrZero({j \in 1..Len(decls) : LayoutOf(decls[j]) # "none"})
    IN  IF i = 0 THEN "static" ELSE LayoutOf(decls[i])

\* decl.value.startsWith throws when the value is undefined (lines 779, 785)
TokenThrows(decl) ==
    /\ decl.value = UNDEF
    /\ decl.property \in {<<"c","o","l","o","r">>, <<"b","a","c","k","g","r","o","u","n","d">>, <<"b","a",
            "c","k","g","r","o","u","n","d","-","c","o","l","o","r">>}

\* the key prefix a declaration is stored under, "" when it is no token
TokenKind(decl) ==
    IF decl.property = <<"c","o","l","o","r">> /\ StartsWith(decl.value, <<"#">>) THEN "color"
    ELSE IF decl.property \in {<<"b","a","c","k","g","r","o","u","n","d">>, <<"b","a","c","k","g","r","o",
            "u","n","d","-","c","o","l","o","r">>} /\ StartsWith(decl.value, <<"#">>)
    THEN "bg"
    ELSE IF decl.property = <<"b","o","r","d","e","r","-","r","a","d","i","u","s">> THEN "radius"
    ELSE IF decl.property = <<"f","o","n","t","-","s","i","z","e">> THEN "text"
    ELSE IF decl.property = <<"f","o","n","t","-","w","e","i","g","h","t">> THEN "weight"
    ELSE ""

\* tokens[key] = value
PutToken(tokens, key, value) ==
    [k \in DOMAIN tokens \cup {key} |-> IF k = key THEN value ELSE tokens[k]]

\* lines 774-801; index is the rule's index (0-based), the key is <<prefix, index>>
RECURSIVE TokensFold(_, _, _, _)
TokensFold(cssRules, r, d, tokens) ==
    LET decl == cssRules[r].declarations[d]
        kind == TokenKind(decl)
    IN  IF r > Len(cssRules) THEN [threw |-> FALSE, tokens |-> tokens]
        ELSE IF d > Len(cssRules[r].declarations) THEN TokensFold(cssRules, r + 1, 1, tokens)
        ELSE IF TokenThrows(decl) THEN [threw |-> TRUE, tokens |-> <<>>]
        ELSE IF kind = "" THEN TokensFold(cssRules, r, d + 1, tokens)
        ELSE TokensFold(cssRules, r, d + 1, PutToken(tokens, <<kind, r - 1>>, Str(decl.value)))

GenerateDesignTokensFromRules(cssRules) == TokensFold(cssRules, 1, 1, <<>>)

\* ------------------------------------------------------------------ Rule Classifier/Extractor

\* \{[^{}]*(?:\{[^}]*\}[^{}]*)*\} from p on, p being right after its '{': the index of the
\* closing '}', 0 when there is no match.  Up to the next brace; a '}' closes the block, a
\* '{' opens an inner group that runs to the first '}' after it.
RECURSIVE BodyScan(_, _)
BodyScan(s, p) ==
    LET q == FirstIn(s, p, {"{", "}"})
        r == FirstIn(s, q + 1, {"}"})
    IN  IF q = 0 THEN 0
        ELSE IF s[q] = "}" THEN q
        ELSE IF r = 0 THEN 0
        ELSE BodyScan(s, r + 1)

\* /@media\s*\([^)]+\)\s*\{...\}/ tried at index i: the index of its last character, or 0
MediaEnd(s, i) ==
    LET j == FirstNotIn(s, i + 6, Ws)
        c == FirstIn(s, j + 1, {")"})
        o == FirstNotIn(s, c + 1, Ws)
    IN  IF /\ MatchAt(s, i, <<"@","m","e","d","i","a">>)
           /\ j # 0 /\ s[j] = "("
           /\ c > j + 1
           /\ o # 0 /\ s[o] = "{"
        THEN BodyScan(s, o + 1)
        ELSE 0

\* lines 428-438
RECURSIVE ResponsiveFrom(_, _)
ResponsiveFrom(s, from) ==
    LET i == MinOrZero({j \in from..Len(s) : MediaEnd(s, j) # 0})
        e == MediaEnd(s, i)
    IN  IF i = 0 THEN <<>> ELSE <<SubSeq(s, i, e)>> \o ResponsiveFrom(s, e + 1)

ExtractResponsiveRules(s) == ResponsiveFrom(s, 1)

\* /@keyframes\s+([^{]+)\s*\{...\}/ tried at index i: between the keyword and the next '{'
\* come white space and then at least one more character
KeyframesEnd(s, i) ==
    LET o == FirstIn(s, i + 10, {"{"})
    IN  IF MatchAt(s, i, <<"@","k","e","y","f","r","a","m","e","s">>) /\ o >= i + 12 /\ s[i + 10] \in Ws
        THEN BodyScan(s, o + 1)
        ELSE 0

\* the capture group, trimmed: what follows the white space \s+ takes, which leaves it
\* one character when there is nothing else
KeyframesName(g) ==
    LET p == FirstNotIn(g, 1, Ws)
    IN  Trim(SubSeq(g, IF p = 0 THEN Len(g) ELSE p, Len(g)))

\* lines 443-456
RECURSIVE AnimationsFrom(_, _)
AnimationsFrom(s, from) ==
    LET i == MinOrZero({j \in from..Len(s) : KeyframesEnd(s, j) # 0})
        e == KeyframesEnd(s, i)
    IN  IF i = 0 THEN <<>>
        ELSE <<[name |-> KeyframesName(SubSeq(s, i + 10, FirstIn(s, i + 10, {"{"}) - 1)),
                definition |-> SubSeq(s, i, e)]>>
             \o AnimationsFrom(s, e + 1)

ExtractAnimations(s) == AnimationsFrom(s, 1)

\* /--([\w-]+):\s*([^;]+);/ tried at index i: "--", a run of word characters and '-' that
\* ends at a ':', at least one character, the next ';'
CustomPropertyAt(s, i) ==
    LET c == FirstNotIn(s, i + 2, ClassChars)
    IN  /\ MatchAt(s, i, <<"-","-">>)
        /\ c > i + 2
        /\ s[c] = ":"
        /\ FirstIn(s, c + 1, {";"}) > c + 1

\* lines 461-474
RECURSIVE CustomPropertiesFrom(_, _)
CustomPropertiesFrom(s, from) ==
    LET i == MinOrZero({j \in from..Len(s) : CustomPropertyAt(s, j)})
        c == FirstNotIn(s, i + 2, ClassChars)
        e == FirstIn(s, c + 1, {";"})
    IN  IF i = 0 THEN <<>>
        ELSE <<[name |-> SubSeq(s, i + 2, c - 1), value |-> Trim(SubSeq(s, c + 1, e - 1))]>>
             \o CustomPropertiesFrom(s, e + 1)

ExtractCustomProperties(s) == CustomPropertiesFrom(s, 1)

\* ------------------------------------------------------------------ HTML Structure Inferrer

\* css.match(/[^{]+(?=\s*\{)/g): every non-empty stretch without '{' that a '{' ends
RECURSIVE SelectorsFrom(_, _)
SelectorsFrom(s, from) ==
    LET i == FirstNotIn(s, from, {"{"})
        b == FirstIn(s, i, {"{"})
    IN  IF i = 0 \/ b = 0 THEN <<>> ELSE <<SubSeq(s, i, b - 1)>> \o SelectorsFrom(s, b)

\* selector.split(/\s+/)
RECURSIVE SplitWs(_)
SplitWs(s) ==
    LET k == FirstIn(s, 1, Ws)
        n == FirstNotIn(s, k, Ws)
    IN  IF k = 0 THEN <<s>>
        ELSE <<SubSeq(s, 1, k - 1)>> \o SplitWs(IF n = 0 THEN <<>> ELSE SubSeq(s, n, Len(s)))

\* lines 497-504
ElementGuess(selector) ==
    LET parts == SplitWs(selector)
    IN  [selector |-> Trim(selector), depth |-> Len(parts), elements |-> MapSeq(parts, Trim)]

\* hierarchy.sort((a, b) => a.depth - b.depth), a stable sort: each guess goes in before
\* the first one that is deeper
InsertByDepth(sorted, g) ==
    LET p == MinOrZero({i \in 1..Len(sorted) : sorted[i].depth > g.depth})
    IN  IF p = 0 THEN Append(sorted, g)
        ELSE SubSeq(sorted, 1, p - 1) \o <<g>> \o SubSeq(sorted, p, Len(sorted))

RECURSIVE SortByDepth(_, _, _)
SortByDepth(hierarchy, i, sorted) ==
    IF i > Len(hierarchy) THEN sorted
    ELSE SortByDepth(hierarchy, i + 1, InsertByDepth(sorted, hierarchy[i]))

\* lines 493-507
BuildElementHierarchy(selectors) == SortByDepth(MapSeq(selectors, ElementGuess), 1, <<>>)

\* lines 479-488
ExtractHtmlStructure(s) ==
    [elements |-> <<>>, hierarchy |-> BuildElementHierarchy(SelectorsFrom(s, 1))]

\* lines 530-549
InferElementType(selector) ==
    IF Includes(selector, <<"b","u","t","t","o","n">>) \/ Includes(selector, <<"b","t","n">>) THEN "button"
    ELSE IF Includes(selector, <<"h","e","a","d","e","r">>) THEN "header"
    ELSE IF Includes(selector, <<"f","o","o","t","e","r">>) THEN "footer"
    ELSE IF Includes(selector, <<"n","a","v">>) THEN "nav"
    ELSE IF Includes(selector, <<"m","a","i","n">>) THEN "main"
    ELSE IF Includes(selector, <<"s","e","c","t","i","o","n">>) THEN "section"
    ELSE IF Includes(selector, <<"a","r","t","i","c","l","e">>) THEN "article"
    ELSE IF Includes(selector, <<"a","s","i","d","e">>) THEN "aside"
    ELSE IF Includes(selector, <<"h","1">>) \/ Includes(selector, <<"t","i","t","l","e">>) THEN "h1"
    ELSE IF Includes(selector, <<"h","2">>) THEN "h2"
    ELSE IF Includes(selector, <<"h","3">>) THEN "h3"
    ELSE IF Includes(selector, <<"p">>) \/ Includes(selector, <<"t","e","x","t">>) THEN "p"
    ELSE IF Includes(selector, <<"s","p","a","n">>) THEN "span"
    ELSE IF Includes(selector, <<"i","m","g">>) \/ Includes(selector, <<"i","m","a","g","e">>) THEN "img"
    ELSE IF Includes(selector, <<"a">>) \/ Includes(selector, <<"l","i","n","k">>) THEN "a"
    ELSE IF Includes(selector, <<"u","l">>) \/ Includes(selector, <<"l","i","s","t">>) THEN "ul"
    ELSE IF Includes(selector, <<"l","i">>) \/ Includes(selector, <<"i","t","e","m">>) THEN "li"
    ELSE "div"

\* selector.match(/\.([a-zA-Z0-9-_]+)/), 'figma-element' when there is none
ExtractClassFromSelector(selector) ==
    LET i == MinOrZero({j \in 1..(Len(selector) - 1) :
                          selector[j] = "." /\ selector[j + 1] \in ClassChars})
        e == FirstNotIn(selector, i + 1, ClassChars)
    IN  IF i = 0 THEN <<"f","i","g","m","a","-","e","l","e","m","e","n","t">>
        ELSE SubSeq(selector, i + 1, IF e = 0 THEN Len(selector) ELSE e - 1)

HtmlElementOf(item) ==
    [elementType |-> InferElementType(item.selector),
     className |-> ExtractClassFromSelector(item.selector),
     selector |-> item.selector]

\* lines 512-525: the elements of the emitted markup, in order; no element stands for the
\* placeholder '<div class="figma-content">'
GenerateHtmlFromStructure(structure) == MapSeq(structure.hierarchy, HtmlElementOf)

\* ------------------------------------------------------------------ Code Emitters

\* rule.figmaComponent, undefined for a rule that has no such field
FigmaComponentOf(rule) ==
    IF "figmaComponent" \in DOMAIN rule THEN rule.figmaComponent ELSE UNDEF

\* cssRules.some(rule => rule.figmaComponent && (...includes(a) || ...includes(b)))
SomeComponent(cssRules, a, b) ==
    \E i \in 1..Len(cssRules) :
        /\ FigmaComponentOf(cssRules[i]) \notin {UNDEF, <<>>}
        /\ Includes(FigmaComponentOf(cssRules[i]), a) \/ Includes(FigmaComponentOf(cssRules[i]), b)

\* lines 712-746: the frame wrapper with its two optional fragments, or the passthrough
GenerateJsxFromFigmaStructure(cssRules) ==
    IF SomeComponent(cssRules, <<"b","u","t","t","o","n">>, <<"B","u","t","t","o",
            "n">>) \/ SomeComponent(cssRules, <<"F","r","a","m","e">>, <<"F","r","a","m","e">>)
    THEN [kind |-> "frame-content",
          text |-> SomeComponent(cssRules, <<"B","r","i","e","f">>, <<"t","e","x","t">>),
          icon |-> SomeComponent(cssRules, <<"c","h","e","c","k">>, <<"I","c","o","n">>)]
    ELSE [kind |-> "figma-content", text |-> FALSE, icon |-> FALSE]

RuleChunk(rule) == [kind |-> "rule", selector |-> rule.selector, declarations |-> rule.declarations]
MediaChunk(rule) == [kind |-> "media", text |-> rule]
KeyframesChunk(anim) == [kind |-> "keyframes", text |-> anim.definition]
HasSelector(rule) == rule.selector # <<>>

\* an emitter that writes the animations before the responsive rules
AnimationsBeforeMedia(componentName, cssRules, responsiveRules, animations, customProperties) ==
    <<[kind |-> "header", name |-> componentName]>>
    \o (IF Len(customProperties) > 0
        THEN <<[kind |-> "root", properties |-> customProperties]>>
        ELSE <<>>)
    \o MapSeq(SelectSeq(cssRules, HasSelector), RuleChunk)
    \o MapSeq(animations, KeyframesChunk)
    \o MapSeq(responsiveRules, MediaChunk)

\* lines 674-710: the emitted text, as the sequence of its parts
GenerateOptimizedCss(componentName, cssRules, responsiveRules, animations, customProperties) ==
    <<[kind |-> "header", name |-> componentName]>>
    \o (IF Len(customProperties) > 0
        THEN <<[kind |-> "root", properties |-> customProperties]>>
        ELSE <<>>)
    \o MapSeq(SelectSeq(cssRules, HasSelector), RuleChunk)
    \o MapSeq(responsiveRules, MediaChunk)
    \o MapSeq(animations, KeyframesChunk)

\* ------------------------------------------------------------------ entry points

\* acc[decl.property] = decl.value over the declarations: one entry per property, in the
\* order the properties first occur, holding the last value
RECURSIVE ReduceProperties(_, _)
ReduceProperties(declarations, acc) ==
    LET decl == declarations[1]
        at == MinOrZero({i \in 1..Len(acc) : acc[i].property = decl.property})
    IN  IF declarations = <<>> THEN acc
        ELSE ReduceProperties(Tail(declarations),
                              IF at = 0 THEN Append(acc, decl) ELSE [acc EXCEPT ![at] = decl])

\* lines 93-100
MappedRule(rule) ==
    [selector |-> rule.selector,
     properties |-> ReduceProperties(rule.declarations, <<>>),
     pseudoClasses |-> <<>>]

\* lines 101-104
MappedMedia(rule) == [breakpoint |-> rule, rules |-> <<>>]

\* lines 105-110
MappedAnimation(anim) ==
    [name |-> anim.name, duration |-> <<"0",".","3","s">>, timingFunction |-> <<"e","a","s",
            "e">>, keyframes |-> <<>>]

\* lines 111-115
MappedProperty(prop) == [name |-> prop.name, value |-> prop.value, usage |-> <<>>]

\* a TypeError leaves the entry point: no ParsedCSS is returned
Thrown == [threw |-> TRUE]

\* lines 91-122: the returned object, unless one of the two calls threw
ReturnParsed(componentName, cssRules, responsiveRules, animations, customProperties, originalStructure, tailwindClasses, designTokens) ==
    IF tailwindClasses.threw \/ designTokens.threw THEN Thrown
    ELSE [threw |-> FALSE,
          componentName |-> componentName,
          cssRules |-> MapSeq(cssRules, MappedRule),
          responsiveRules |-> MapSeq(responsiveRules, MappedMedia),
          animations |-> MapSeq(animations, MappedAnimation),
          customProperties |-> MapSeq(customProperties, MappedProperty),
          layoutType |-> DetectLayoutTypeFromRules(cssRules),
          designTokens |-> designTokens.tokens,
          originalStructure |-> originalStructure,
          htmlStructure |-> GenerateHtmlFromStructure(originalStructure),
          optimizedCss |-> GenerateOptimizedCss(componentName, cssRules, responsiveRules,
                                                animations, customProperties),
          tailwindClasses |-> [main |-> tailwindClasses.main,
                               customStyles |-> tailwindClasses.customStyles]]

\* lines 61-123
ParseFigmaCss(cssCode) ==
    ReturnParsed(OrDefault(ExtractComponentNameFromCss(cssCode), FigmaComponent),
                 ParseCssRules(cssCode),
                 ExtractResponsiveRules(cssCode), ExtractAnimations(cssCode),
                 ExtractCustomProperties(cssCode), ExtractHtmlStructure(cssCode),
                 ConvertCssToTailwind(ParseCssRules(cssCode)),
                 GenerateDesignTokensFromRules(ParseCssRules(cssCode)))

\* lines 153-166: the result of parseFigmaCss with the raw rules, animations and custom
\* properties put in place of the mapped ones
ReturnLegacy(result, cssRules, responsiveRules, animations, customProperties, originalStructure, tailwindClasses) ==
    IF result.threw \/ tailwindClasses.threw THEN Thrown
    ELSE [result EXCEPT
            !.cssRules = cssRules,
            !.responsiveRules = MapSeq(responsiveRules, MappedMedia),
            !.animations = animations,
            !.customProperties = customProperties,
            !.originalStructure = originalStructure,
            !.htmlStructure = GenerateHtmlFromStructure(originalStructure),
            !.optimizedCss = GenerateOptimizedCss(result.componentName, cssRules,
                                 responsiveRules, animations, customProperties),
            !.tailwindClasses = [main |-> tailwindClasses.main,
                                 customStyles |-> tailwindClasses.customStyles]]

\* lines 128-167
ParseFigmaCssToComponent(cssCode) ==
    ReturnLegacy(ParseFigmaCss(cssCode),
                 ParseCssRules(cssCode),
                 ExtractResponsiveRules(cssCode), ExtractAnimations(cssCode),
                 ExtractCustomProperties(cssCode), ExtractHtmlStructure(cssCode),
                 ConvertCssToTailwind(ParseCssRules(cssCode)))

\* lines 172-240: the four artifacts; jsx and html as the values their templates interpolate
GenerateReactComponentFromCss(parsedCss) ==
    [jsx |-> [componentName |-> parsedCss.componentName,
              tailwindClasses |-> parsedCss.tailwindClasses.main,
              jsxStructure |-> GenerateJsxFromFigmaStructure(parsedCss.cssRules)],
     css |-> parsedCss.optimizedCss,
     html |-> [title |-> parsedCss.componentName,
               style |-> parsedCss.optimizedCss,
               class |-> MapSeq(parsedCss.componentName, ToLowerChar),
               body |-> parsedCss.htmlStructure],
     tailwindClasses |-> parsedCss.tailwindClasses.main]

\* ------------------------------------------------------------------ the memoized parser

KeyPrefixLen == 100

HexDigits == Range(DigitSeq) \cup Range(<<"a","b","c","d","e","f","A","B","C","D","E","F">>)

\* the functional notations of the colour expression, each with its '('
ColorFunctions == {<<"r","g","b","(">>, <<"r","g","b","a","(">>, <<"h","s","l","(">>, <<"h","s","l","a","(">>}

\* /#[0-9a-fA-F]{3,6}|rgb\([^)]+\)|rgba\([^)]+\)|hsl\([^)]+\)|hsla\([^)]+\)/ tried at index
\* i: the index of the last character of the match, 0 when there is none
ColorEnd(t, i) ==
    LET stop == FirstNotIn(t, i + 1, HexDigits)
        digits == (IF stop = 0 THEN Len(t) + 1 ELSE stop) - (i + 1)
        fn == CHOOSE f \in ColorFunctions : MatchAt(t, i, f)
        close == FirstIn(t, i + Len(fn), {")"})
    IN  IF t[i] = "#" THEN (IF digits >= 3 THEN i + (IF digits > 6 THEN 6 ELSE digits) ELSE 0)
        ELSE IF \E f \in ColorFunctions : MatchAt(t, i, f)
        THEN (IF close > i + Len(fn) THEN close ELSE 0)
        ELSE 0

\* trimmed.match(.../g): the matches from left to right
RECURSIVE ColorMatches(_, _)
ColorMatches(t, from) ==
    LET i == MinOrZero({j \in from..Len(t) : ColorEnd(t, j) # 0})
        e == ColorEnd(t, i)
    IN  IF i = 0 THEN <<>> ELSE <<SubSeq(t, i, e)>> \o ColorMatches(t, e + 1)

\* Set.prototype.add of each element in turn, the set kept in insertion order
RECURSIVE AddAll(_, _)
AddAll(set, xs) ==
    IF xs = <<>> THEN set
    ELSE AddAll(IF xs[1] \in Range(set) THEN set ELSE Append(set, xs[1]), Tail(xs))

\* performance.ts lines 68-95: the loop over lines[i..], st holding its locals
RECURSIVE ParseLines(_, _, _)
ParseLines(lines, i, st) ==
    LET trimmed == Trim(lines[i])
        selector == Trim(Split(trimmed, "{")[1])
    IN  IF i > Len(lines) THEN st
        ELSE IF trimmed = <<>> \/ StartsWith(trimmed, <<"/","*">>) THEN ParseLines(lines, i + 1, st)
        ELSE IF Includes(trimmed, <<"{">>)
        THEN ParseLines(lines, i + 1,
                 [st EXCEPT !.inRule = TRUE, !.currentRule = trimmed,
                            !.selectors = IF selector # <<>> THEN AddAll(@, <<selector>>) ELSE @])
        ELSE IF Includes(trimmed, <<"}">>)
        THEN ParseLines(lines, i + 1,
                 IF st.inRule
                 THEN [st EXCEPT !.rules = Append(@, st.currentRule \o <<" ">> \o trimmed),
                                 !.currentRule = <<>>, !.inRule = FALSE]
                 ELSE st)
        ELSE IF st.inRule
        THEN ParseLines(lines, i + 1,
                 [st EXCEPT !.currentRule = @ \o <<" ">> \o trimmed,
                            !.colors = AddAll(@, ColorMatches(trimmed, 1))])
        ELSE ParseLines(lines, i + 1, st)

\* performance.ts lines 97-102
ResultOf(st, lines) ==
    [rules |-> st.rules, colors |-> st.colors, selectors |-> st.selectors,
     lineCount |-> Len(lines)]

\* performance.ts lines 57-103: the function that memoize wraps
ParseUnmemoized(cssCode) ==
    ResultOf(ParseLines(Split(cssCode, "\n"), 1,
                        [rules |-> <<>>, colors |-> <<>>, selectors |-> <<>>,
                         currentRule |-> <<>>, inRule |-> FALSE]),
             Split(cssCode, "\n"))

\* the decimal digits of a natural number
RECURSIVE ToDecimal(_)
ToDecimal(n) == IF n < 10 THEN <<DigitSeq[n + 1]>> ELSE ToDecimal(n \div 10) \o <<DigitSeq[(n % 10) + 1]>>

\* performance.ts line 104: `css_${cssCode.length}_${cssCode.slice(0, 100)}`
GetKey(cssCode) ==
    <<"c","s","s","_">> \o ToDecimal(Len(cssCode)) \o <<"_">>
    \o SubSeq(cssCode, 1, IF Len(cssCode) < KeyPrefixLen THEN Len(cssCode) ELSE KeyPrefixLen)

\* memoCache.set(key, result)
CachePut(cache, key, result) ==
    [k \in DOMAIN cache \cup {key} |-> IF k = key THEN result ELSE cache[k]]

\* ------------------------------------------------------------------ server/storage.ts, server/routes.ts

\* the jobs the model lets the server create
MaxJobs == 2

Terminal == {"completed", "failed"}

\* storage.ts lines 165-181: the id is currentJobId++, which starts at 1 (line 91)
CreateProcessingJob(js, insertJob) ==
    Append(js, [type |-> insertJob.type, status |-> insertJob.status,
                inputData |-> insertJob.inputData,
                progressPercentage |-> insertJob.progressPercentage, completedAt |-> FALSE])

\* storage.ts lines 187-196: { ...existing, ...updates }, completedAt when the update
\* carries a terminal status; undefined and nothing stored when the id is unknown
UpdateProcessingJob(js, id, updates) ==
    IF id \notin DOMAIN js THEN js
    ELSE LET merged == [f \in DOMAIN js[id] |-> IF f \in DOMAIN updates THEN updates[f] ELSE js[id][f]]
         IN  [js EXCEPT ![id] =
                 IF "status" \in DOMAIN updates /\ updates.status \in Terminal
                 THEN [merged EXCEPT !.completedAt = TRUE] ELSE merged]

\* the progress updates of the callback before its last one: routes.ts lines 717 and 742
\* for css_processing, 621-629 and 883-890 for the two others
ProgressSteps(type) == IF type = "css_processing" THEN <<30, 70>> ELSE <<25, 50, 75>>

\* the part of a route after its validation: the job is created, the callback is
\* scheduled with setTimeout and the job id is answered (lines 607-688, 704-790, 871-920)
StartJob(type, inputData) ==
    /\ Len(jobs) < MaxJobs
    /\ jobs' = CreateProcessingJob(jobs, [type |-> type, status |-> "processing",
             inputData |-> inputData, progressPercentage |-> 0])
    /\ tasks' = Append(tasks, 0)
    /\ response' = [status |-> 200, jobId |-> Len(jobs) + 1, jobStatus |-> "processing"]

Refuse ==
    /\ response' = [status |-> 400]
    /\ UNCHANGED <<jobs, tasks>>

\* routes.ts lines 695-794; cssCode is what req.body holds under that name
PostCssProcess(cssCode) ==
    /\ IF cssCode.type # "string" \/ cssCode.value = <<>>
       THEN Refuse
       ELSE StartJob("css_processing", cssCode.value)
    /\ UNCHANGED <<pipeline, inference, client>>

\* routes.ts lines 588-692 and 852-924: zod rejects a url that is none and an empty
\* token (400), the route rejects a url without /file/ or /design/ (400)
FigmaRoute(type, body) ==
    IF body.url # "file" \/ body.token = <<>> THEN Refuse ELSE StartJob(type, <<>>)

PostFigmaExtract(body) ==
    /\ FigmaRoute("figma_extraction", body)
    /\ UNCHANGED <<pipeline, inference, client>>

PostVersionsCreate(body) ==
    /\ FigmaRoute("version_tracking", body)
    /\ UNCHANGED <<pipeline, inference, client>>

\* the callback of setTimeout runs up to its next await: one more progress update
Advance(id) ==
    /\ id \in DOMAIN jobs
    /\ tasks[id] < Len(ProgressSteps(jobs[id].type))
    /\ jobs' = UpdateProcessingJob(jobs, id, [progressPercentage |-> ProgressSteps(jobs[id].type)[tasks[id] + 1]])
    /\ tasks' = [tasks EXCEPT ![id] = @ + 1]
    /\ UNCHANGED <<pipeline, inference, response, client>>

\* the work after the last progress update went through: the last update of the try block
\* (lines 665-673, 771-778, 904-908)
Complete(id) ==
    /\ id \in DOMAIN jobs
    /\ tasks[id] = Len(ProgressSteps(jobs[id].type))
    /\ jobs' = UpdateProcessingJob(jobs, id, [status |-> "completed", progressPercentage |-> 100])
    /\ tasks' = [tasks EXCEPT ![id] = @ + 1]
    /\ UNCHANGED <<pipeline, inference, response, client>>

\* a catch block that records the error and leaves the status alone
CatchWithoutStatus(id) ==
    /\ id \in DOMAIN jobs
    /\ tasks[id] \in 1..Len(ProgressSteps(jobs[id].type))
    /\ jobs' = UpdateProcessingJob(jobs, id, [progressPercentage |-> 100])
    /\ tasks' = [tasks EXCEPT ![id] = Len(ProgressSteps(jobs[id].type)) + 1]
    /\ UNCHANGED <<pipeline, inference, response, client>>

\* something awaited after the first progress update threw: the catch block (lines
\* 675-681, 780-786, 910-916)
Fail(id) ==
    /\ id \in DOMAIN jobs
    /\ tasks[id] \in 1..Len(ProgressSteps(jobs[id].type))
    /\ jobs' = UpdateProcessingJob(jobs, id, [status |-> "failed", progressPercentage |-> 100])
    /\ tasks' = [tasks EXCEPT ![id] = Len(ProgressSteps(jobs[id].type)) + 1]
    /\ UNCHANGED <<pipeline, inference, response, client>>

\* ------------------------------------------------------------------ src/hooks/useJobPolling.ts

\* the getJob requests the model lets the hook issue for one job
MaxRequests == 3

\* useJobPolling.ts lines 11-14: pollJob returns when it has no job id, and issues
\* JobService.getJob(jobId) otherwise
PollJob(ps, jobId) ==
    IF jobId = 0 THEN ps
    ELSE [ps EXCEPT ![jobId] = [@ EXCEPT !.requests = @ + 1, !.inFlight = @ + 1]]

\* FigmaUrlTab.tsx lines 516-545: handleImport posts to /api/figma/extract and keeps the
\* job id of the answer with setCurrentJobId; an answer that is an error is handed to
\* handleError
HandleImport(body) ==
    /\ hook.jobId = 0
    /\ body.token # <<>>
    /\ FigmaRoute("figma_extraction", body)
    /\ hook' = [hook EXCEPT !.jobId = IF response'.status = 200 THEN response'.jobId ELSE 0]
    /\ polls' = IF response'.status = 200
                THEN Append(polls, [requests |-> 0, inFlight |-> 0, completions |-> 0, settled |-> FALSE])
                ELSE polls
    /\ UNCHANGED <<pipeline, inference>>

\* a state of the component changed: it renders again and its effect runs again, its
\* dependency pollJob being new with every render (onComplete is an inline function of
\* FigmaUrlTab, line 510).  Lines 31-42: the cleanup the last effect returned clears its
\* interval and calls setIsPolling(false); then, if the render saw a job id and isPolling
\* false, the effect calls setIsPolling(true), calls pollJob and sets a new interval
Render ==
    /\ hook.renderedJobId # hook.jobId \/ hook.renderedIsPolling # hook.isPolling
    /\ LET starts == hook.jobId # 0 /\ ~hook.isPolling
       IN  /\ starts => polls[hook.jobId].requests < MaxRequests
           /\ hook' = [jobId |-> hook.jobId,
                       isPolling |-> IF starts THEN TRUE ELSE IF hook.interval # 0 THEN FALSE ELSE hook.isPolling,
                       renderedJobId |-> hook.jobId,
                       renderedIsPolling |-> hook.isPolling,
                       interval |-> IF starts THEN hook.jobId ELSE 0]
           /\ polls' = IF starts THEN PollJob(polls, hook.jobId) ELSE polls
    /\ UNCHANGED <<pipeline, inference, server>>

\* line 34: the interval that is set calls the pollJob of its render
IntervalTick ==
    /\ hook.interval # 0
    /\ polls[hook.interval].requests < MaxRequests
    /\ polls' = PollJob(polls, hook.interval)
    /\ UNCHANGED <<pipeline, inference, server, hook>>

\* lines 14-23: getJob answers with the job as the server holds it (routes.ts lines
\* 797-806).  'completed': setIsPolling(false) and onComplete, which in FigmaUrlTab calls
\* setCurrentJobId(null); 'failed': setIsPolling(false) and handleError
Respond(id) ==
    /\ id \in DOMAIN polls
    /\ polls[id].inFlight > 0
    /\ LET status == jobs[id].status
       IN  /\ polls' = [polls EXCEPT ![id] =
                  [requests |-> @.requests, inFlight |-> @.inFlight - 1,
                   completions |-> IF status = "completed" THEN @.completions + 1 ELSE @.completions,
                   settled |-> @.settled \/ status \in Terminal]]
           /\ hook' = [hook EXCEPT !.isPolling = IF status \in Terminal THEN FALSE ELSE @,
                                   !.jobId = IF status = "completed" THEN 0 ELSE @]
    /\ UNCHANGED <<pipeline, inference, server>>

\* lines 24-27: the request failed: setIsPolling(false) and handleError
RequestFails(id) ==
    /\ id \in DOMAIN polls
    /\ polls[id].inFlight > 0
    /\ polls' = [polls EXCEPT ![id] = [@ EXCEPT !.inFlight = @ - 1, !.settled = TRUE]]
    /\ hook' = [hook EXCEPT !.isPolling = FALSE]
    /\ UNCHANGED <<pipeline, inference, server>>

\* ------------------------------------------------------------------ inputs

\* the concatenation of a sequence of texts
RECURSIVE Concat(_)
Concat(ps) == IF ps = <<>> THEN <<>> ELSE ps[1] \o Concat(Tail(ps))

\* every text made of at most n pieces
TextsOf(pieces, n) == UNION {{Concat(f) : f \in [1..k -> pieces]} : k \in 0..n}

MaxPieces == 3

NamerPieces ==
    { <<"/","*"," ","1","2"," ","c","o","l"," ","*","/","\n">>, <<"/","*"," ","!","!"," ","*","/",
            "\n">>, <<"/","*"," ","b","u","t","t","o","n"," ","*","/","\n">>, <<"/","*"," ","A","u","t","o",
            " ","l","a","y","o","u","t"," ","*","/","\n">>,
      <<"/","*"," ","P","r","i","m","a","r","y"," ","B","u","t","t","o","n"," ","*","/","\n">>, <<"/","*",
              " ","*","/">>, <<"/","*"," ","7"," ","*","/">>, <<".","b","t","n","-","p","r","i","m","a","r",
              "y"," ","{"," ">>, <<"c","o","l","o","r",":"," ","r","e","d",";","\n">>, <<"}","\n">> }

\* labels (usable, noise with a declaration after it, empty), declaration lines, and real
\* rules: one with a repeated property, one whose body has a segment without ':' that
\* the translator inspects, one whose body has a segment without ':' that nothing inspects
CssPieces ==
    { <<"/","*"," ","C","a","r","d"," ","*","/","\n">>, <<"/","*"," ","A","u","t","o"," ","l","a","y","o",
            "u","t"," ","*","/","\n","d","i","s","p","l","a","y",":"," ","f","l","e","x",";","\n">>, <<"/",
            "*"," ","*","/","\n">>, <<"c","o","l","o","r",":"," ","r","e","d",";","\n">>,
      <<"d","i","s","p","l","a","y",":"," ","f","l","e","x",";","\n">>,
      <<".","a"," ","{"," ","c","o","l","o","r",":"," ","r","e","d",";"," ","c","o","l","o","r",":"," ","r",
              "e","d",";"," ","}","\n">>, <<".","b"," ","{"," ","p","a","d","d","i","n","g"," ","}",
              "\n">>, <<".","c"," ","{"," ","f","o","o",";"," ","}","\n">> }

\* ------------------------------------------------------------------ the state machine

Init ==
    /\ css = <<>>
    /\ entry = "none"
    /\ pc = "idle"
    /\ name = <<>>
    /\ rules = <<>>
    /\ parsed = <<>>
    /\ generated = <<>>
    /\ seen = <<>>
    /\ memoCache = <<>>
    /\ memoInput = <<>>
    /\ memoResult = <<>>
    /\ inference = <<>>
    /\ jobs = <<>>
    /\ tasks = <<>>
    /\ response = [status |-> 0]
    /\ hook = [jobId |-> 0, isPolling |-> FALSE, renderedJobId |-> 0, renderedIsPolling |-> FALSE, interval |-> 0]
    /\ polls = <<>>

\* the caller has a text in hand
SubmitFrom(texts) ==
    /\ pc = "idle"
    /\ \E x \in texts : css' = x
    /\ pc' = "submitted"
    /\ UNCHANGED <<entry, name, rules, parsed, generated, seen, memo, elsewhere>>

\* a caller invokes parseFigmaCss(cssCode); a TypeError propagates to the caller
CallParseFigmaCss ==
    /\ pc = "submitted"
    /\ entry' = "parseFigmaCss"
    /\ rules' = ParseCssRules(css)
    /\ parsed' = ParseFigmaCss(css)
    /\ pc' = IF parsed'.threw THEN "threw" ELSE "parsed"
    /\ UNCHANGED <<css, name, generated, seen, memo, elsewhere>>

\* a caller invokes parseFigmaCssToComponent(cssCode) (useCssProcessor.ts:40)
CallParseFigmaCssToComponent ==
    /\ pc = "submitted"
    /\ entry' = "parseFigmaCssToComponent"
    /\ rules' = ParseCssRules(css)
    /\ parsed' = ParseFigmaCssToComponent(css)
    /\ pc' = IF parsed'.threw THEN "threw" ELSE "parsed"
    /\ UNCHANGED <<css, name, generated, seen, memo, elsewhere>>

\* the caller passes the result on to generateReactComponentFromCss (useCssProcessor.ts:41)
Generate ==
    /\ pc = "parsed"
    /\ generated' = GenerateReactComponentFromCss(parsed)
    /\ pc' = "done"
    /\ UNCHANGED <<css, entry, name, rules, parsed, seen, memo, elsewhere>>

\* the caller is done with the result, or has caught the error; what the call left
\* behind is garbage
Finish ==
    /\ pc \in {"named", "done", "threw"}
    /\ pc' = "idle"
    /\ css' = <<>>
    /\ entry' = "none"
    /\ name' = <<>>
    /\ rules' = <<>>
    /\ parsed' = <<>>
    /\ generated' = <<>>
    /\ UNCHANGED <<seen, memo, elsewhere>>

\* ------------------------------------------------------------------ the pipeline

Submit == SubmitFrom(TextsOf(CssPieces, MaxPieces))

Next == Submit \/ CallParseFigmaCss \/ CallParseFigmaCssToComponent \/ Generate \/ Finish

Spec == Init /\ [][Next]_vars

\* ------------------------------------------------------------------ the namer alone

SubmitNamer == SubmitFrom(TextsOf(NamerPieces, MaxPieces))

\* line 63: extractComponentNameFromCss(cssCode) || "FigmaComponent"
NameComponent ==
    /\ pc = "submitted"
    /\ entry' = "extractComponentNameFromCss"
    /\ name' = OrDefault(ExtractComponentNameFromCss(css), FigmaComponent)
    /\ pc' = "named"
    /\ UNCHANGED <<css, rules, parsed, generated, seen, memo, elsewhere>>

NextNamer == SubmitNamer \/ NameComponent \/ Finish

SpecNamer == Init /\ [][NextNamer]_vars

\* ------------------------------------------------------------------ the button texts

\* single-value paddings and hex colours
PaddingValues == {<<"1","6","p","x">>, <<"8","p","x">>, <<"1","r","e","m">>}
HexValues == {<<"#","F","1","F","1","F","1">>, <<"#","f","f","f">>}

\* the four lines after the label, for a padding and a hex colour
ButtonLines(p, h) ==
    << <<"d","i","s","p","l","a","y",":"," ","f","l","e","x",";","\n">>, <<"p","a","d","d","i","n","g",":",
            " ">> \o p \o <<";","\n">>, <<"b","a","c","k","g","r","o","u","n","d",":"," ">> \o h \o <<";",
            "\n">>,
       <<"b","o","r","d","e","r","-","r","a","d","i","u","s",":"," ","1","0","0","p","x",";","\n">> >>

\* the sequences that hold each element of the sequence lines once
Orders(lines) ==
    {[i \in 1..Len(lines) |-> lines[f[i]]] :
        f \in {g \in [1..Len(lines) -> 1..Len(lines)] : \A i, j \in 1..Len(lines) : g[i] = g[j] => i = j}}

\* one comment block labelled 'button' followed by the four lines, in any order
ButtonTexts ==
    UNION {{<<"/","*"," ","b","u","t","t","o","n"," ","*","/",
            "\n">> \o Concat(o) : o \in Orders(ButtonLines(p, h))} :
              <<p, h>> \in PaddingValues \X HexValues}

SubmitButton == SubmitFrom(ButtonTexts)

NextButton ==
    SubmitButton \/ CallParseFigmaCss \/ CallParseFigmaCssToComponent \/ Generate \/ Finish

SpecButton == Init /\ [][NextButton]_vars

\* ------------------------------------------------------------------ repeated invocations

MaxHistoryPieces == 1

\* a real rule, a comment block, and a rule that makes the translator throw
HistoryPieces ==
    { <<".","a"," ","{"," ","c","o","l","o","r",":"," ","r","e","d",";"," ","c","o","l","o","r",":"," ","r",
            "e","d",";"," ","}","\n">>, <<"/","*"," ","b","u","t","t","o","n"," ","*","/","\n","d","i","s",
            "p","l","a","y",":"," ","f","l","e","x",";","\n">>, <<".","b"," ","{"," ","p","a","d","d","i",
            "n","g"," ","}","\n">> }

SubmitAgain == SubmitFrom(TextsOf(HistoryPieces, MaxHistoryPieces))

\* the caller goes on to its next invocation; nothing the last one left behind is
\* cleared.  A caller may keep the first output it observed, with the entry point and the
\* text it was for.
Restart ==
    /\ pc \in {"done", "threw"}
    /\ pc' = "idle"
    /\ \/ UNCHANGED seen
       \/ /\ pc = "done"
          /\ seen = <<>>
          /\ seen' = [entry |-> entry, css |-> css, generated |-> generated]
    /\ UNCHANGED <<css, entry, name, rules, parsed, generated, memo, elsewhere>>

NextHistory ==
    SubmitAgain \/ CallParseFigmaCss \/ CallParseFigmaCssToComponent \/ Generate \/ Restart

SpecHistory == Init /\ [][NextHistory]_vars

\* ------------------------------------------------------------------ the memoized parser's callers

MaxMemoPieces == 1
MaxCacheEntries == 2

MemoPieces == {<<".","a"," ","{","\n">>, <<".","b"," ","{","\n">>, <<"c","o","l","o","r",":"," ","#","f",
        "f","f",";","\n">>, <<"}","\n">>}

\* comment lines that fill the part of a text the key holds
MemoPad == Concat([i \in 1..10 |-> <<"/","*"," ","p","a","d"," ","*","/","\n">>])

\* short texts, and the same texts after the pad
MemoTexts ==
    TextsOf(MemoPieces, MaxMemoPieces) \cup {MemoPad \o t : t \in TextsOf(MemoPieces, MaxMemoPieces)}

\* performance.ts lines 39-47: a call of optimizedCssParser; the number of keys the map
\* holds is capped
CallOptimizedCssParser ==
    \E x \in MemoTexts :
        /\ GetKey(x) \in DOMAIN memoCache \/ Cardinality(DOMAIN memoCache) < MaxCacheEntries
        /\ memoInput' = x
        /\ memoResult' = IF GetKey(x) \in DOMAIN memoCache THEN memoCache[GetKey(x)]
                         ELSE ParseUnmemoized(x)
        /\ memoCache' = IF GetKey(x) \in DOMAIN memoCache THEN memoCache
                        ELSE CachePut(memoCache, GetKey(x), memoResult')
        /\ UNCHANGED <<css, entry, pc, name, rules, parsed, generated, seen, elsewhere>>

\* performance.ts lines 51-53
ClearMemoCache ==
    /\ DOMAIN memoCache # {}
    /\ memoCache' = <<>>
    /\ UNCHANGED <<css, entry, pc, name, rules, parsed, generated, seen, memoInput, memoResult, elsewhere>>

NextMemo == CallOptimizedCssParser \/ ClearMemoCache

SpecMemo == Init /\ [][NextMemo]_vars

\* ------------------------------------------------------------------ the translator texts

MaxDecls == 2

\* declarations as they stand in a rule body: table entries (one with an empty class),
\* paddings of one to four values (one with two spaces between its two values), the five
\* properties kept as custom styles (backgrounds: a hex colour, a hex colour followed by an
\* image, a colour name), and a property that is neither
DeclPieces ==
    { <<"d","i","s","p","l","a","y",":"," ","f","l","e","x">>, <<"d","i","s","p","l","a","y",":"," ","g",
            "r","i","d">>, <<"j","u","s","t","i","f","y","-","c","o","n","t","e","n","t",":"," ","s","p",
            "a","c","e","-","b","e","t","w","e","e","n">>,
      <<"p","o","s","i","t","i","o","n",":"," ","a","b","s","o","l","u","t","e">>, <<"b","o","x","-","s",
              "i","z","i","n","g",":"," ","b","o","r","d","e","r","-","b","o","x">>,
      <<"p","a","d","d","i","n","g",":"," ","1","2","p","x">>, <<"p","a","d","d","i","n","g",":"," ","8",
              "p","x"," ","2","4","p","x">>, <<"p","a","d","d","i","n","g",":"," ","8","p","x"," "," ","2",
              "4","p","x">>,
      <<"p","a","d","d","i","n","g",":"," ","1","p","x"," ","2","p","x"," ","3","p","x">>, <<"p","a","d",
              "d","i","n","g",":"," ","1","p","x"," ","2","p","x"," ","3","p","x"," ","4","p","x">>,
      <<"w","i","d","t","h",":"," ","2","2","3","p","x">>, <<"h","e","i","g","h","t",":"," ","6","0","p",
              "x">>, <<"b","a","c","k","g","r","o","u","n","d",":"," ","#","F","1","F","1","F","1">>,
      <<"b","a","c","k","g","r","o","u","n","d",":"," ","#","f","f","f"," ","u","r","l","(","a",".","p","n",
              "g",")">>, <<"b","a","c","k","g","r","o","u","n","d",":"," ","r","e","d">>,
      <<"b","o","x","-","s","h","a","d","o","w",":"," ","0"," ","0"," ","1","p","x"," ","r","e",
              "d">>, <<"b","a","c","k","d","r","o","p","-","f","i","l","t","e","r",":"," ","b","l","u","r",
              "(","4","p","x",")">>, <<"c","o","l","o","r",":"," ","r","e","d">> }

\* the texts of at most MaxDecls declarations: one rule holding them all, or one rule for
\* each of them
TailwindTexts ==
    LET seqs == UNION {[1..k -> DeclPieces] : k \in 0..MaxDecls}
        oneRule(d) == <<".","a"," ",
                "{">> \o Concat([i \in 1..Len(d) |-> <<" ">> \o d[i] \o <<";">>]) \o <<" ","}","\n">>
        rulePerDecl(d) == Concat([i \in 1..Len(d) |-> <<".","a"," ","{"," ">> \o d[i] \o <<";"," ","}",
                "\n">>])
    IN  {oneRule(d) : d \in seqs} \cup {rulePerDecl(d) : d \in seqs}

NextTailwind ==
    SubmitFrom(TailwindTexts) \/ CallParseFigmaCss \/ CallParseFigmaCssToComponent \/ Generate \/ Finish

SpecTailwind == Init /\ [][NextTailwind]_vars

\* ------------------------------------------------------------------ the at-rule texts

MaxAtPieces == 2

\* keyframes blocks with no, one and two levels of nested braces, media blocks with one and
\* two levels, and a plain rule
AtPieces ==
    { <<"@","k","e","y","f","r","a","m","e","s"," ","n","o","n","e"," ","{"," ","}","\n">>, <<"@","k","e",
            "y","f","r","a","m","e","s"," ","s","p","i","n"," ","{"," ","f","r","o","m","{","a",":","b","}",
            " ","t","o","{","c",":","d","}"," ","}","\n">>,
      <<"@","k","e","y","f","r","a","m","e","s"," ","d","e","e","p"," ","{"," ","f","r","o","m"," ","{"," ",
              "x"," ","{"," ","a",":","b"," ","}"," ","}"," ","}","\n">>,
      <<"@","m","e","d","i","a"," ","(","m","a","x","-","w","i","d","t","h",":"," ","1","p","x",")"," ","{",
              " ",".","a"," ","{"," ","c",":"," ","d"," ","}"," ","}","\n">>,
      <<"@","m","e","d","i","a"," ","(","m","i","n","-","w","i","d","t","h",":"," ","1","p","x",")"," ","{",
              " ",".","a"," ","{"," ",".","b"," ","{"," ","c",":"," ","d"," ","}"," ","}"," ","}","\n">>,
      <<".","a"," ","{"," ","c","o","l","o","r",":"," ","r","e","d",";"," ","}","\n">> }

NextAtRules ==
    \/ SubmitFrom(TextsOf(AtPieces, MaxAtPieces))
    \/ CallParseFigmaCss \/ CallParseFigmaCssToComponent \/ Generate \/ Finish

SpecAtRules == Init /\ [][NextAtRules]_vars

\* ------------------------------------------------------------------ the declaration texts

MaxLines == 3

\* a label; lines after it: a declaration, a property without a value, the first line of a
\* value, a line without ':', a comment without content; real rules: a value that holds
\* ':', a segment without ':'
DeclarationPieces ==
    { <<"/","*"," ","C","a","r","d"," ","*","/","\n">>, <<"c","o","l","o","r",":"," ","r","e","d",";",
            "\n">>, <<"b","o","x","-","s","h","a","d","o","w",":","\n">>, <<"b","o","x","-","s","h","a","d",
            "o","w",":"," ","0"," ","0"," ","1","p","x"," ","r","e","d",",","\n">>,
      <<"0"," ","0"," ","2","p","x"," ","b","l","u","e",";","\n">>, <<"/","*","*","/","\n">>,
      <<".","a"," ","{"," ","b","a","c","k","g","r","o","u","n","d",":"," ","u","r","l","(","h","t","t","p",
              ":","/","/","x",")",";"," ","}","\n">>, <<".","c"," ","{"," ","f","o","o",";"," ","}","\n">> }

NextDeclarations ==
    \/ SubmitFrom(TextsOf(DeclarationPieces, MaxLines))
    \/ CallParseFigmaCss \/ CallParseFigmaCssToComponent \/ Generate \/ Finish

SpecDeclarations == Init /\ [][NextDeclarations]_vars

\* ------------------------------------------------------------------ the emitter texts

MaxEmitPieces == 3

\* a rule with a custom property, a plain rule, a media block and a keyframes block
EmitPieces ==
    { <<".","a"," ","{"," ","-","-","g","a","p",":"," ","4","p","x",";"," ","}","\n">>, <<".","b"," ","{",
            " ","c","o","l","o","r",":"," ","r","e","d",";"," ","}","\n">>,
      <<"@","m","e","d","i","a"," ","(","m","a","x","-","w","i","d","t","h",":"," ","1","p","x",")"," ","{",
              " ",".","c"," ","{"," ","d",":"," ","e"," ","}"," ","}","\n">>, <<"@","k","e","y","f","r","a",
              "m","e","s"," ","s","p","i","n"," ","{"," ","f","r","o","m","{","a",":","b","}"," ","}","\n">> }

\* no comment block, or one whose label names a frame, a button, a text, an icon, or none
\* of them
LabelBlocks ==
    { <<>>, <<"/","*"," ","f","r","a","m","e"," ","*","/","\n","w","i","d","t","h",":"," ","1","p","x",";",
            "\n">>, <<"/","*"," ","F","r","a","m","e"," ","1"," ","*","/","\n","w","i","d","t","h",":"," ",
            "1","p","x",";","\n">>,
      <<"/","*"," ","b","u","t","t","o","n"," ","*","/","\n","w","i","d","t","h",":"," ","1","p","x",";",
              "\n">>, <<"/","*"," ","C","a","r","d"," ","*","/","\n","w","i","d","t","h",":"," ","1","p",
              "x",";","\n">>,
      <<"/","*"," ","B","u","t","t","o","n"," ","t","e","x","t"," ","*","/","\n","w","i","d","t","h",":",
              " ","1","p","x",";","\n">>, <<"/","*"," ","F","r","a","m","e"," ","c","h","e","c","k"," ","*",
              "/","\n","w","i","d","t","h",":"," ","1","p","x",";","\n">> }

\* at most MaxEmitPieces pieces, then a comment block
NextEmitter ==
    \/ SubmitFrom({x \o b : x \in TextsOf(EmitPieces, MaxEmitPieces), b \in LabelBlocks})
    \/ CallParseFigmaCss \/ CallParseFigmaCssToComponent \/ Generate \/ Finish

SpecEmitter == Init /\ [][NextEmitter]_vars

\* ------------------------------------------------------------------ the processing jobs

\* req.body.cssCode: missing, not a string, empty, blank, with an open brace, a rule
CssBodies ==
    { [type |-> "undefined", value |-> <<>>], [type |-> "number", value |-> <<>>],
      [type |-> "string", value |-> <<>>], [type |-> "string", value |-> <<" "," ">>],
      [type |-> "string", value |-> <<".","a"," ","{">>], [type |-> "string", value |-> <<".","a"," ","{",
              " ","}">>] }

\* req.body of the two Figma routes: the url is none, has no file id, or names a file
FigmaBodies == [url : {"none", "page", "file"}, token : {<<>>, <<"t">>}]

Run(id) == Advance(id) \/ Complete(id) \/ Fail(id)

NextJobs ==
    \/ \E cssCode \in CssBodies : PostCssProcess(cssCode)
    \/ \E body \in FigmaBodies : PostFigmaExtract(body)
    \/ \E body \in FigmaBodies : PostVersionsCreate(body)
    \/ \E id \in 1..MaxJobs : Advance(id)
    \/ \E id \in 1..MaxJobs : Complete(id)
    \/ \E id \in 1..MaxJobs : Fail(id)

\* a timer that was set fires and an awaited promise settles: the callback of a job goes
\* on as long as it has a step to take
SpecJobs == Init /\ [][NextJobs]_vars /\ \A id \in 1..MaxJobs : WF_vars(Run(id))

\* ------------------------------------------------------------------ the invoking paths

\* an empty text, blank texts, texts whose braces do not pair up, a rule, a labelled block
CallerTexts ==
    { <<>>, <<" "," ">>, <<"\n">>, <<".","a"," ","{">>, <<"}">>, <<".","a"," ","{"," ","}">>, <<"/","*"," ",
            "C","a","r","d"," ","*","/","\n","w","i","d","t","h",":"," ","1","p","x",";","\n">> }

\* useCssProcessor.ts lines 27-41 and use-figma-converter.ts lines 323-340: a toast and
\* return when the trimmed text is empty, the call of parseFigmaCssToComponent otherwise
ProcessCss ==
    /\ pc = "submitted"
    /\ IF Trim(css) = <<>>
       THEN /\ pc' = "rejected"
            /\ UNCHANGED <<css, entry, name, rules, parsed, generated, seen, memo, elsewhere>>
       ELSE CallParseFigmaCssToComponent

ProcessFigmaCss == ProcessCss

\* the toast goes away; the text stays in the text area
Dismiss ==
    /\ pc = "rejected"
    /\ pc' = "idle"
    /\ UNCHANGED <<css, entry, name, rules, parsed, generated, seen, memo, elsewhere>>

NextCallers ==
    \/ SubmitFrom(CallerTexts) \/ ProcessCss \/ ProcessFigmaCss \/ Generate \/ Finish \/ Dismiss
    \/ \E cssCode \in CssBodies : PostCssProcess(cssCode)
    \/ \E id \in 1..MaxJobs : Advance(id)
    \/ \E id \in 1..MaxJobs : Complete(id)
    \/ \E id \in 1..MaxJobs : Fail(id)

SpecCallers == Init /\ [][NextCallers]_vars

\* ------------------------------------------------------------------ the element types

MaxWords == 2

\* the substrings the scan of inferElementType looks for, a class dot and a letter that
\* is in none of them
Words ==
    { <<"b","u","t","t","o","n">>, <<"b","t","n">>, <<"h","e","a","d","e","r">>, <<"f","o","o","t","e",
            "r">>, <<"n","a","v">>, <<"m","a","i","n">>, <<"s","e","c","t","i","o","n">>, <<"a","r","t","i",
            "c","l","e">>,
      <<"a","s","i","d","e">>, <<"h","1">>, <<"t","i","t","l","e">>, <<"h","2">>, <<"h",
              "3">>, <<"p">>, <<"t","e","x","t">>, <<"s","p","a","n">>, <<"i","m","g">>, <<"i","m","a","g",
              "e">>,
      <<"a">>, <<"l","i","n","k">>, <<"u","l">>, <<"l","i","s","t">>, <<"l","i">>, <<"i","t","e",
              "m">>, <<".">>, <<"z">> }

\* a caller has a selector in hand
Select ==
    /\ inference = <<>>
    /\ \E s \in TextsOf(Words, MaxWords) : inference' = [selector |-> s, elementType |-> "none"]
    /\ UNCHANGED <<pipeline, server, client>>

CallInferElementType ==
    /\ inference # <<>>
    /\ inference.elementType = "none"
    /\ inference' = [inference EXCEPT !.elementType = InferElementType(inference.selector)]
    /\ UNCHANGED <<pipeline, server, client>>

NextInfer == Select \/ CallInferElementType

SpecInfer == Init /\ [][NextInfer]_vars

\* ------------------------------------------------------------------ the polling of a job

NextPolling ==
    \/ \E body \in FigmaBodies : HandleImport(body)
    \/ Render \/ IntervalTick
    \/ \E id \in 1..MaxJobs : Respond(id)
    \/ \E id \in 1..MaxJobs : RequestFails(id)
    \/ \E id \in 1..MaxJobs : Advance(id)
    \/ \E id \in 1..MaxJobs : Complete(id)
    \/ \E id \in 1..MaxJobs : Fail(id)

SpecPolling == Init /\ [][NextPolling]_vars

\* ------------------------------------------------------------------ claims on the namer

\* C4: for every text, the component name is non-empty and, unless it is a default
\* literal, starts with an uppercase ASCII letter.
C4_NameCapitalized ==
    pc = "named" =>
        /\ name # <<>>
        /\ (name \notin {FigmaButton, FigmaComponent} => name[1] \in Range(UpperSeq))

\* no comment of the text sanitizes to a non-empty name
NoNamesIn(all) == \A i \in 1..Len(all) : SanitizeRaw(Trim(all[i].capture)) = <<>>

\* C5: when no comment yields a non-empty sanitized name and the text has no class
\* selector, the component name is the literal that a text without comments and class
\* selectors gets.
C5_OneDefault ==
    (pc = "named" /\ NoNamesIn(AllNameComments(css, 1)) /\ FirstClass(css) = UNDEF) =>
        name = OrDefault(ExtractComponentNameFromCss(<<>>), FigmaComponent)


\* the content of a comment is noise
IsNoise(label) == Includes(label, <<"A","u","t","o"," ","l","a","y","o","u","t">>) \/ Includes(label, <<"I",
        "n","s","i","d","e"," ","a","u","t","o"," ","l","a","y","o","u","t">>)

\* step 1 succeeds on a comment: its content is non-empty, not noise, not the literal
\* 'button', and sanitizes to a non-empty name
Step1Succeeds(label) ==
    label # <<>> /\ ~IsNoise(label) /\ label # <<"b","u","t","t","o","n">> /\ SanitizeRaw(label) # <<>>

\* the contents of the comments that step 2 accepts, in text order
QualifyingLabels(all) ==
    SelectSeq([i \in 1..Len(all) |-> Trim(all[i].capture)],
              LAMBDA label : label # <<>> /\ ~IsNoise(label) /\ Len(label) < MaxNameLen)

\* the name the ordered steps give a text whose comments are all
NameBySteps(s, all) ==
    IF all # <<>> /\ Step1Succeeds(Trim(all[1].capture)) THEN SanitizeRaw(Trim(all[1].capture))
    ELSE IF QualifyingLabels(all) # <<>> THEN SanitizeRaw(QualifyingLabels(all)[1])
    ELSE IF FirstClass(s) # UNDEF THEN Join(MapSeq(Split(FirstClass(s), "-"), Capitalize), <<>>)
    ELSE FigmaButton

\* C14: the namer's steps are tried in order and the first success wins: the first comment
\* when step 1 succeeds on it, else the first comment that is non-empty, not noise and
\* under 50 characters, else the first class selector, else the default.
C14_FirstSuccessWins ==
    (pc = "named" /\ NameBySteps(css, AllNameComments(css, 1)) # <<>>) =>
        name = NameBySteps(css, AllNameComments(css, 1))

\* C14 on the texts whose first comment is non-empty and sanitizes to a non-empty name
C14_FirstCommentNamed ==
    (AllNameComments(css, 1) # <<>> => SanitizeRaw(Trim(AllNameComments(css, 1)[1].capture)) # <<>>)
        => C14_FirstSuccessWins
\* ------------------------------------------------------------------ claims on the pipeline

\* C1: the parse entry points never throw, whatever the text.
C1_NeverThrows == pc # "threw"

\* the text without its comments: a comment runs from "/*" to the next "*/", or to the end
RECURSIVE OutsideComments(_, _)
OutsideComments(s, i) ==
    LET e == IndexFrom(s, <<"*","/">>, i + 2)
    IN  IF i > Len(s) THEN <<>>
        ELSE IF MatchAt(s, i, <<"/","*">>)
        THEN (IF e = 0 THEN <<>> ELSE OutsideComments(s, e + 2))
        ELSE <<s[i]>> \o OutsideComments(s, i + 1)

CountOf(s, ch) == Cardinality({i \in 1..Len(s) : s[i] = ch})

\* C7: for a text with as many '{' as '}', the rules of the result hold at most as many
\* declarations as the text has ':' outside comments.
C7_DeclarationsWithinColons ==
    (pc = "parsed" /\ CountOf(css, "{") = CountOf(css, "}")) =>
        Len(AllDeclarations(rules)) <= CountOf(OutsideComments(css, 1), ":")

\* a line of the text after a label that the declaration parser makes a declaration of:
\* not a comment line, with text on both sides of its first ':'
DeclarationLine(line) ==
    LET t == Trim(line)
        k == FirstIn(t, 1, {":"})
    IN  /\ ~MatchAt(t, 1, <<"/","*">>)
        /\ ~MatchAt(t, Len(t) - 1, <<"*","/">>)
        /\ k # 0
        /\ Trim(SubSeq(t, 1, k - 1)) # <<>>
        /\ Trim(SubSeq(t, k + 1, Len(t))) # <<>>

\* a label that is non-empty and no noise, followed by text with a declaration
UsableLabel(label, content) ==
    /\ label # <<>>
    /\ ~Includes(label, <<"A","u","t","o"," ","l","a","y","o","u","t">>)
    /\ ~Includes(label, <<"I","n","s","i","d","e"," ","a","u","t","o"," ","l","a","y","o","u","t">>)
    /\ \E i \in 1..Len(Split(content, "\n")) : DeclarationLine(Split(content, "\n")[i])

\* the labels of the text that are usable, in order; parts is the text split at its
\* comments (text, label, text, label, ...)
RECURSIVE KeptLabels(_, _)
KeptLabels(parts, i) ==
    IF i > Len(parts) THEN <<>>
    ELSE (IF UsableLabel(Trim(parts[i]), Trim(parts[i + 1])) THEN <<Trim(parts[i])>> ELSE <<>>)
         \o KeptLabels(parts, i + 2)

IsSynthesized(rule) == FigmaComponentOf(rule) # UNDEF

\* the labels of the synthesized rules of a rule list, in order
LabelsOf(cssRules) ==
    LET blocks == SelectSeq(cssRules, IsSynthesized)
    IN  [i \in 1..Len(blocks) |-> blocks[i].figmaComponent]

\* C8: the splitter makes a rule of a comment label if and only if the label is non-empty,
\* holds neither noise phrase, and the text up to the next comment yields a declaration.
C8_BlockIffUsableLabel ==
    pc \in {"parsed", "threw"} => LabelsOf(rules) = KeptLabels(SplitComments(css, 1), 2)

\* a noise label with declarations after it was dropped, and another label made a rule
C8_Witness ==
    /\ pc = "parsed"
    /\ LabelsOf(rules) # <<>>
    /\ \E i \in 1..Len(SplitComments(css, 1)) :
          /\ i % 2 = 0
          /\ Includes(SplitComments(css, 1)[i], <<"A","u","t","o"," ","l","a","y","o","u","t">>)
          /\ UsableLabel(<<"x">>, Trim(SplitComments(css, 1)[i + 1]))

\* the entries of a rule of the result: its declarations, or the properties made of them
EntriesOf(rule) == IF "properties" \in DOMAIN rule THEN rule.properties ELSE rule.declarations

\* C9: each rule of the result holds its declarations in source order, one entry per
\* occurrence of a property.
C9_DeclarationsRetained ==
    pc = "parsed" =>
        \A i \in 1..Len(parsed.cssRules) : EntriesOf(parsed.cssRules[i]) = rules[i].declarations

\* the rule list the entry point returns for the rules parseCssRules made
ReturnedRules(cssRules) ==
    IF entry = "parseFigmaCss" THEN MapSeq(cssRules, MappedRule) ELSE cssRules

\* C10 as stated: the synthesized rules come first, then the rules of the selector scan.
C10_BlocksFirst ==
    pc = "parsed" =>
        parsed.cssRules = ReturnedRules(ParseFigmaCssBlocks(css) \o RealRules(css, 1))

\* C10 amended: the rules of the selector scan come first, in scan order, then the
\* synthesized rules in the order of their comments.
C10_RealRulesFirst ==
    pc = "parsed" =>
        parsed.cssRules = ReturnedRules(RealRules(css, 1) \o ParseFigmaCssBlocks(css))

\* a result with a rule of each kind
C10_Witness ==
    /\ pc = "parsed"
    /\ \E i, j \in 1..Len(rules) : IsSynthesized(rules[i]) /\ ~IsSynthesized(rules[j])


\* the whitespace-separated tokens of a text
WsTokens(text) == SelectSeq(SplitWs(text), LAMBDA t : t # <<>>)

\* C22: for every element guess, depth is the number of whitespace-separated tokens of its
\* selector and elements is the list of these tokens, also when the scanned selector has
\* white space before or after it.
C22_DepthIsTokenCount ==
    pc = "parsed" =>
        \A i \in 1..Len(parsed.originalStructure.hierarchy) :
            LET guess == parsed.originalStructure.hierarchy[i]
            IN  /\ guess.depth = Len(WsTokens(guess.selector))
                /\ guess.elements = WsTokens(guess.selector)
\* ------------------------------------------------------------------ claims on the button texts

\* the classes of a class string
ClassTokens(main) == Range(Split(main, " "))

\* C6: for a comment block labelled 'button' followed by display: flex, a single-value
\* padding, a hex background and border-radius: 100px, the component name is Button, the
\* classes include flex, p-4 and rounded-full, and customStyles holds background-color
\* with the hex value.
C6_ButtonEndToEnd ==
    pc = "parsed" =>
        /\ parsed.componentName = <<"B","u","t","t","o","n">>
        /\ {<<"f","l","e","x">>, <<"p","-","4">>, <<"r","o","u","n","d","e","d","-","f","u","l",
                "l">>} \subseteq ClassTokens(parsed.tailwindClasses.main)
        /\ \E h \in HexValues :
              /\ Includes(css, <<"b","a","c","k","g","r","o","u","n","d",":"," ">> \o h \o <<";">>)
              /\ (<<"b","a","c","k","g","r","o","u","n","d","-","c","o","l","o","r",":",
                      " ">> \o h) \in Range(parsed.tailwindClasses.customStyles)

\* the legacy entry point has returned the result for a button text
C6_Witness ==
    /\ pc = "parsed"
    /\ entry = "parseFigmaCssToComponent"
    /\ StartsWith(css, <<"/","*"," ","b","u","t","t","o","n"," ","*","/","\n">>)
    /\ Includes(css, <<"p","a","d","d","i","n","g",":"," ","1","6","p","x",";">>)

\* ------------------------------------------------------------------ claims on the memoized parser

\* C3: after any sequence of calls, a call of the memoized parser returns what the
\* function it wraps returns for the same text.
C3_MemoTransparent == memoResult # <<>> => memoResult = ParseUnmemoized(memoInput)

\* ------------------------------------------------------------------ claims on repeated invocations

C26_EntryPointsInterchangeable ==
    (pc = "done" /\ seen # <<>> /\ seen.css = css /\ seen.entry # entry) =>
        generated = seen.generated

\* C26 for the texts in which no comment label opens a block of declarations
C26_WithoutLabels ==
    Includes(css, <<"/", "*">>) \/ C26_EntryPointsInterchangeable
\* ------------------------------------------------------------------ claims on the translator

\* the class the static table gives the text 'property: value' of a declaration, the empty
\* string when the table has no entry for it
TableClassOf(decl) ==
    LET text == Str(decl.property) \o <<":"," ">> \o Str(decl.value)
        at == {j \in 1..Len(TailwindMap) : TailwindMap[j].decl = text}
    IN  IF at = {} THEN <<>> ELSE TailwindMap[CHOOSE j \in at : TRUE].cls

\* the classes of the table entries a declaration list matches, in encounter order
RECURSIVE TableHits(_)
TableHits(decls) ==
    IF decls = <<>> THEN <<>>
    ELSE (IF TableClassOf(decls[1]) # <<>> THEN <<TableClassOf(decls[1])>> ELSE <<>>)
         \o TableHits(Tail(decls))

\* a class that only the table yields (the border-radius heuristic yields rounded-full too)
TableOnly(class) ==
    /\ class # <<"r","o","u","n","d","e","d","-","f","u","l","l">>
    /\ \E j \in 1..Len(TailwindMap) : TailwindMap[j].cls = class

\* the classes of a class string, in order
TokensOf(main) == SelectSeq(Split(main, " "), LAMBDA t : t # <<>>)

\* C11: the main class string holds, for every declaration whose 'property: value' text
\* matches a table entry with a non-empty class, the mapped class once per occurrence of the
\* declaration, in encounter order over all rules.
C11_TableClassPerOccurrence ==
    pc = "parsed" =>
        SelectSeq(TokensOf(parsed.tailwindClasses.main), TableOnly)
            = SelectSeq(TableHits(AllDeclarations(rules)), TableOnly)

\* two rules repeat one table declaration
C11_Witness ==
    /\ pc = "parsed"
    /\ Len(rules) = 2
    /\ TableHits(AllDeclarations(rules)) = <<<<"f","l","e","x">>, <<"f","l","e","x">>>>

\* the number of whitespace-separated tokens of a value
TokenCount(value) ==
    Cardinality({i \in 1..Len(value) : value[i] \notin Ws /\ (i = 1 \/ value[i - 1] \in Ws)})

\* the classes the padding declarations of a list stand for, by the number of their tokens
RECURSIVE PaddingClasses(_)
PaddingClasses(decls) ==
    IF decls = <<>> THEN <<>>
    ELSE (IF decls[1].property # <<"p","a","d","d","i","n","g">> \/ decls[1].value = UNDEF THEN <<>>
          ELSE IF TokenCount(decls[1].value) = 1 THEN <<<<"p","-","4">>>>
          ELSE IF TokenCount(decls[1].value) = 2 THEN <<<<"p","y","-","3">>, <<"p","x","-","6">>>>
          ELSE <<>>)
         \o PaddingClasses(Tail(decls))

IsPaddingClass(class) == class \in {<<"p","-","4">>, <<"p","y","-","3">>, <<"p","x","-","6">>}

IsPaddingStyle(style) == StartsWith(style, <<"p","a","d","d","i","n","g">>)

\* C12: a padding of one whitespace-separated token adds p-4, one of two tokens adds
\* py-3 px-6, one of three or four tokens adds no class and no custom style.
C12_PaddingByTokenCount ==
    pc = "parsed" =>
        /\ SelectSeq(TokensOf(parsed.tailwindClasses.main), IsPaddingClass)
              = PaddingClasses(AllDeclarations(rules))
        /\ SelectSeq(parsed.tailwindClasses.customStyles, IsPaddingStyle) = <<>>

\* a hex colour literal: '#' and three to eight hex digits
IsHexLiteral(value) ==
    /\ Len(value) \in 4..9
    /\ value[1] = "#"
    /\ \A i \in 2..Len(value) : value[i] \in HexDigits

\* the text 'property: value' of a declaration has an entry in the static table
InTable(decl) ==
    \E j \in 1..Len(TailwindMap) :
        TailwindMap[j].decl = Str(decl.property) \o <<":"," ">> \o Str(decl.value)

\* the custom styles a declaration list stands for: the declarations of the five
\* properties that miss the table, verbatim, a hex background as background-color
RECURSIVE StylesOf(_)
StylesOf(decls) ==
    LET d == decls[1]
    IN  IF decls = <<>> THEN <<>>
        ELSE (IF InTable(d) THEN <<>>
              ELSE IF d.property = <<"b","a","c","k","g","r","o","u","n","d">> /\ IsHexLiteral(d.value)
              THEN <<<<"b","a","c","k","g","r","o","u","n","d","-","c","o","l","o","r",":"," ">> \o d.value>>
              ELSE IF d.property \in {<<"w","i","d","t","h">>, <<"h","e","i","g","h","t">>, <<"b","a","c",
                      "k","g","r","o","u","n","d">>, <<"b","o","x","-","s","h","a","d","o","w">>,
                                      <<"b","a","c","k","d","r","o","p","-","f","i","l","t","e","r">>}
              THEN <<Str(d.property) \o <<":"," ">> \o Str(d.value)>>
              ELSE <<>>)
             \o StylesOf(Tail(decls))

\* the classes that the table or a heuristic of the translator can add
TranslatorClasses ==
    {TailwindMap[j].cls : j \in 1..Len(TailwindMap)}
        \cup {<<"r","o","u","n","d","e","d","-","f","u","l","l">>, <<"r","o","u","n","d","e","d","-","l",
                "g">>, <<"p","-","4">>, <<"p","y","-","3">>, <<"p","x","-","6">>, <<"g","a","p","-","2",".",
                "5">>, <<"g","a","p","-","2">>}

\* C18: customStyles is, in encounter order and with repetitions, the width, height,
\* background, box-shadow and backdrop-filter declarations that miss the table, each as
\* 'property: value', a background with a hex literal as 'background-color: value'; a
\* declaration of another unmapped property adds nothing to either output.
C18_CustomStylesExact ==
    pc = "parsed" =>
        /\ parsed.tailwindClasses.customStyles = StylesOf(AllDeclarations(rules))
        /\ Range(TokensOf(parsed.tailwindClasses.main)) \subseteq TranslatorClasses

\* C18 on the texts whose backgrounds that start with '#' are hex literals
C18_HexLiterals == Includes(css, <<"#","f","f","f"," ","u","r","l">>) \/ C18_CustomStylesExact

\* the classes a heuristic of the translator gives a declaration that misses the table
HeuristicClasses(d) ==
    IF d.property = <<"p","a","d","d","i","n","g">> THEN Range(PaddingClasses(<<d>>))
    ELSE IF d.property = <<"b","o","r","d","e","r","-","r","a","d","i","u","s">> THEN {<<"r","o","u","n",
            "d","e","d","-","f","u","l","l">>, <<"r","o","u","n","d","e","d","-","l","g">>}
    ELSE IF d.property = <<"g","a","p">> /\ d.value \in {<<"1","0","p","x">>, <<"8","p","x">>} THEN {<<"g",
            "a","p","-","2",".","5">>, <<"g","a","p","-","2">>}
    ELSE {}

\* a declaration has left a class in the class string, or an entry with its property and
\* its value in the custom styles
LeftItsMark(d, classes, styles) ==
    IF TableClassOf(d) # <<>> THEN TableClassOf(d) \in classes
    ELSE IF HeuristicClasses(d) # {} THEN HeuristicClasses(d) \cap classes # {}
    ELSE \E style \in styles :
            StartsWith(style, d.property) /\ EndsWith(style, <<":"," ">> \o Str(d.value))

\* C19 as stated: every declaration either adds a class to mainClasses or is kept as a
\* 'property: value' entry of customStyles.
C19_NothingLost ==
    pc = "parsed" =>
        \A i \in 1..Len(AllDeclarations(rules)) :
            LeftItsMark(AllDeclarations(rules)[i],
                        Range(TokensOf(parsed.tailwindClasses.main)),
                        Range(parsed.tailwindClasses.customStyles))

\* a declaration that misses the table and has one of the five properties that are kept
IsKept(d) ==
    /\ ~InTable(d)
    /\ d.property \in {<<"w","i","d","t","h">>, <<"h","e","i","g","h","t">>, <<"b","a","c","k","g","r","o",
            "u","n","d">>, <<"b","o","x","-","s","h","a","d","o","w">>, <<"b","a","c","k","d","r","o","p",
            "-","f","i","l","t","e","r">>}

\* C19 amended: the declarations of width, height, background, box-shadow and
\* backdrop-filter that miss the table are each kept as one entry of customStyles, in
\* order, under their property (background or background-color for a background) and
\* with their value; the other declarations that add no class are dropped.
C19_FivePropertiesKept ==
    pc = "parsed" =>
        LET kept == SelectSeq(AllDeclarations(rules), IsKept)
            styles == parsed.tailwindClasses.customStyles
        IN  /\ Len(styles) = Len(kept)
            /\ \A i \in 1..Len(kept) :
                  /\ StartsWith(styles[i], kept[i].property)
                  /\ EndsWith(styles[i], <<":"," ">> \o Str(kept[i].value))

\* a declaration that is dropped stands before one that is kept
C19_Witness ==
    /\ pc = "parsed"
    /\ css = <<".","a"," ","{"," ","c","o","l","o","r",":"," ","r","e","d",";"," ","w","i","d","t","h",":",
            " ","2","2","3","p","x",";"," ","}","\n">>
    /\ parsed.tailwindClasses.customStyles = <<<<"w","i","d","t","h",":"," ","2","2","3","p","x">>>>
    /\ parsed.tailwindClasses.main = <<>>

IsFlexOrGrid(d) == d.property = <<"d","i","s","p","l","a","y">> /\ d.value \in {<<"f","l","e","x">>, <<"g",
        "r","i","d">>}

IsAbsolute(d) == d.property = <<"p","o","s","i","t","i","o","n">> /\ d.value = <<"a","b","s","o","l","u",
        "t","e">>

LayoutNameOf(d) ==
    IF d.value = <<"f","l","e","x">> THEN "flexbox" ELSE IF d.value = <<"g","r","i",
            "d">> THEN "grid" ELSE "absolute"

\* C20 as stated: layoutType is flexbox or grid whenever a rule holds display: flex or
\* display: grid, also after a position: absolute; absolute only when there is no such
\* display and some position: absolute; static otherwise.
C20_FlexGridWins ==
    pc = "parsed" =>
        LET decls == AllDeclarations(rules)
            displays == SelectSeq(decls, IsFlexOrGrid)
        IN  parsed.layoutType =
                IF displays # <<>> THEN LayoutNameOf(displays[1])
                ELSE IF SelectSeq(decls, IsAbsolute) # <<>> THEN "absolute"
                ELSE "static"

\* C20 amended: layoutType is decided by the first declaration in scan order that is
\* display: flex, display: grid or position: absolute; it is static when there is none.
C20_FirstDeclarationDecides ==
    pc = "parsed" =>
        LET deciding == SelectSeq(AllDeclarations(rules),
                                  LAMBDA d : IsFlexOrGrid(d) \/ IsAbsolute(d))
        IN  parsed.layoutType = IF deciding = <<>> THEN "static" ELSE LayoutNameOf(deciding[1])

\* a position: absolute stands before a display: flex, in another rule
C20_Witness ==
    /\ pc = "parsed"
    /\ css = <<".","a"," ","{"," ","p","o","s","i","t","i","o","n",":"," ","a","b","s","o","l","u","t","e",
            ";"," ","}","\n",".","a"," ","{"," ","d","i","s","p","l","a","y",":"," ","f","l","e","x",";",
            " ","}","\n">>
    /\ parsed.layoutType = "absolute"

\* a declaration that the token generator makes a token of (a colour counts as hex when
\* its value starts with '#')
IsTokenDeclaration(d) ==
    \/ d.property \in {<<"c","o","l","o","r">>, <<"b","a","c","k","g","r","o","u","n","d">>, <<"b","a","c",
            "k","g","r","o","u","n","d","-","c","o","l","o","r">>} /\ StartsWith(d.value, <<"#">>)
    \/ d.property \in {<<"b","o","r","d","e","r","-","r","a","d","i","u","s">>, <<"f","o","n","t","-","s",
            "i","z","e">>, <<"f","o","n","t","-","w","e","i","g","h","t">>}

\* C21: every hex color, hex background, border-radius, font-size and font-weight
\* declaration has a key of its own in designTokens: there are as many tokens as such
\* declarations, also when one rule holds several of one kind.
C21_TokenPerDeclaration ==
    pc = "parsed" =>
        Cardinality(DOMAIN parsed.designTokens)
            = Len(SelectSeq(AllDeclarations(rules), IsTokenDeclaration))

\* ------------------------------------------------------------------ claims on the at-rules

\* the braces of a block counted from p on, p being right after its '{': the index of the
\* '}' that closes the block (0 when nothing closes it) and the deepest level of braces
\* nested in it
RECURSIVE BraceScan(_, _, _, _)
BraceScan(s, p, depth, levels) ==
    IF p > Len(s) THEN [end |-> 0, levels |-> levels]
    ELSE IF s[p] = "{"
    THEN BraceScan(s, p + 1, depth + 1, IF depth > levels THEN depth ELSE levels)
    ELSE IF s[p] = "}"
    THEN (IF depth = 1 THEN [end |-> p, levels |-> levels]
          ELSE BraceScan(s, p + 1, depth - 1, levels))
    ELSE BraceScan(s, p + 1, depth, levels)

\* the blocks of the text that start with the keyword, in text order: the text between the
\* keyword and the '{', the whole text of the block, and its levels of nested braces
RECURSIVE BlocksOf(_, _, _)
BlocksOf(s, keyword, from) ==
    LET i == MinOrZero({j \in from..Len(s) : MatchAt(s, j, keyword)})
        o == FirstIn(s, i + Len(keyword), {"{"})
        scan == BraceScan(s, o + 1, 1, 0)
    IN  IF i = 0 \/ o = 0 \/ scan.end = 0 THEN <<>>
        ELSE <<[name |-> Trim(SubSeq(s, i + Len(keyword), o - 1)),
                text |-> SubSeq(s, i, scan.end),
                levels |-> scan.levels]>>
             \o BlocksOf(s, keyword, scan.end + 1)

IsShallow(block) == block.levels <= 1

IsDeep(block) == block.levels > 1

NameOf(r) == r.name

\* name and text of a block, as an entry of animations
AnimationOf(block) == [name |-> block.name, definition |-> block.text]

\* C13: animations holds one entry for each @keyframes block with at most one level of
\* nested braces, with the trimmed name and the whole text of the block, and no other entry.
C13_OneEntryPerKeyframes ==
    pc = "parsed" =>
        LET shallow == SelectSeq(BlocksOf(css, <<"@","k","e","y","f","r","a","m","e","s">>, 1), IsShallow)
        IN  /\ MapSeq(parsed.animations, NameOf) = MapSeq(shallow, NameOf)
            /\ entry = "parseFigmaCssToComponent"
                  => parsed.animations = MapSeq(shallow, AnimationOf)

\* C13 on the texts without a block of more than one level
C13_WithoutDeepBlocks ==
    SelectSeq(BlocksOf(css, <<"@","k","e","y","f","r","a","m","e",
            "s">>, 1), IsDeep) = <<>> => C13_OneEntryPerKeyframes

\* the @media and @keyframes blocks of the text with more than one level of nested braces
DeepBlocks(s) ==
    Range(SelectSeq(BlocksOf(s, <<"@","m","e","d","i","a">>, 1), IsDeep))
        \cup Range(SelectSeq(BlocksOf(s, <<"@","k","e","y","f","r","a","m","e","s">>, 1), IsDeep))

\* C17: a @media or @keyframes block with more than one level of nested braces raises no
\* error and leaves no entry in responsiveRules or animations, not even a prefix of its text.
C17_DeepBlockOmitted ==
    (pc \in {"parsed", "threw"} /\ DeepBlocks(css) # {}) =>
        /\ pc = "parsed"
        /\ \A b \in DeepBlocks(css) :
              /\ \A i \in 1..Len(parsed.responsiveRules) :
                    ~StartsWith(b.text, parsed.responsiveRules[i].breakpoint)
              /\ entry = "parseFigmaCssToComponent" =>
                    \A i \in 1..Len(parsed.animations) :
                        ~StartsWith(b.text, parsed.animations[i].definition)

\* ------------------------------------------------------------------ claims on the declarations

\* the bodies of the rules that the selector scan keeps, in scan order
RECURSIVE RealBodies(_, _)
RealBodies(s, from) ==
    LET i == MinOrZero({j \in from..Len(s) : RuleAt(s, j)})
        o == FirstIn(s, i, {"{"})
        c == FirstIn(s, o + 1, {"}"})
    IN  IF i = 0 THEN <<>>
        ELSE (IF RealSelector(Trim(SubSeq(s, i, o - 1)))
              THEN <<Trim(SubSeq(s, o + 1, c - 1))>> ELSE <<>>)
             \o RealBodies(s, c + 1)

\* a text split at its first ':'
AtFirstColon(t) ==
    LET k == FirstIn(t, 1, {":"})
    IN  [property |-> Trim(SubSeq(t, 1, k - 1)), value |-> Trim(SubSeq(t, k + 1, Len(t)))]

\* the declarations of a rule body: every non-blank segment between ';' that holds a ':',
\* split at its first ':'
RECURSIVE SegmentDeclarations(_)
SegmentDeclarations(segments) ==
    IF segments = <<>> THEN <<>>
    ELSE (IF FirstIn(segments[1], 1, {":"}) # 0 THEN <<AtFirstColon(segments[1])>> ELSE <<>>)
         \o SegmentDeclarations(Tail(segments))

DeclarationsOfBody(body) == SegmentDeclarations(Split(body, ";"))

IsReal(rule) == ~IsSynthesized(rule)

DeclarationsIn(rule) == rule.declarations

\* C15: the declarations of a real rule are its non-empty segments between ';', each split
\* at its first ':' only, the value being all the text after it; a segment without ':' gives
\* no declaration.
C15_SplitAtFirstColon ==
    pc \in {"parsed", "threw"} =>
        MapSeq(SelectSeq(rules, IsReal), DeclarationsIn)
            = MapSeq(RealBodies(css, 1), DeclarationsOfBody)

\* a line that holds nothing but a comment
CommentOnly(t) == StartsWith(t, <<"/","*">>) /\ EndsWith(t, <<"*","/">>)

\* the value of a declaration with a continuation line appended
Continued(decl, t) ==
    [decl EXCEPT !.value = IF decl.value = <<>> THEN t ELSE decl.value \o <<" ">> \o t]

\* the declarations the lines lines[i..] add to decls, line by line: a line with ':' starts
\* a declaration, a line without ':' continues the value of the last one
RECURSIVE LineDeclarations(_, _, _)
LineDeclarations(lines, i, decls) ==
    LET t == Trim(lines[i])
        n == Len(decls)
    IN  IF i > Len(lines) THEN decls
        ELSE IF t = <<>> \/ CommentOnly(t) THEN LineDeclarations(lines, i + 1, decls)
        ELSE IF FirstIn(t, 1, {":"}) # 0
        THEN LineDeclarations(lines, i + 1, Append(decls, AtFirstColon(t)))
        ELSE IF n = 0 THEN LineDeclarations(lines, i + 1, decls)
        ELSE LineDeclarations(lines, i + 1, [decls EXCEPT ![n] = Continued(decls[n], t)])

\* the trailing ';' of a value stripped
Stripped(decl) ==
    LET v == decl.value
    IN  [decl EXCEPT !.value = Trim(IF v # <<>> /\ v[Len(v)] = ";" THEN SubSeq(v, 1, Len(v) - 1) ELSE v)]

\* the declarations of the blocks of the text whose label is non-empty and no noise; parts
\* is the text split at its comments (text, label, text, label, ...)
RECURSIVE BlockDeclarations(_, _)
BlockDeclarations(parts, i) ==
    IF i > Len(parts) THEN <<>>
    ELSE (IF Trim(parts[i]) # <<>> /\ ~IsNoise(Trim(parts[i]))
          THEN MapSeq(LineDeclarations(Split(Trim(parts[i + 1]), "\n"), 1, <<>>), Stripped)
          ELSE <<>>)
         \o BlockDeclarations(parts, i + 2)

\* C16: the declarations of a comment block are made line by line: each line with ':'
\* starts a declaration, each following line without ':' is appended to its value (also
\* when the line of the property has no value), comment lines are skipped, the trailing
\* ';' of a value is stripped, and no property that started a declaration is lost.
C16_LineOriented ==
    pc \in {"parsed", "threw"} =>
        AllDeclarations(SelectSeq(rules, IsSynthesized)) = BlockDeclarations(SplitComments(css, 1), 2)

\* C16 on the texts where every line of a property holds a value
C16_WithValues == Includes(css, <<"b","o","x","-","s","h","a","d","o","w",":","\n">>) \/ C16_LineOriented


HasDelimiter(value) == \E i \in 1..Len(value) : value[i] \in {"{", "}", ";"}

\* C27: no declaration value of a parsed rule holds '{', '}' or ';'.
C27_NoDelimiterInValues ==
    pc = "parsed" =>
        \A i \in 1..Len(rules) : \A j \in 1..Len(rules[i].declarations) :
            ~HasDelimiter(rules[i].declarations[j].value)

\* ------------------------------------------------------------------ claims on the emitters

\* the parts of the emitted CSS after its header comment
EmittedParts == Tail(parsed.optimizedCss)

KindOf(part) == part.kind

NamesButtonOrFrame(label) ==
    LET lower == MapSeq(label, ToLowerChar)
    IN  Includes(lower, <<"b","u","t","t","o","n">>) \/ Includes(lower, <<"f","r","a","m","e">>)

\* C24: the inner structure of the JSX is the wrapper div exactly when the figmaComponent
\* name of some rule contains 'button' or 'frame'; otherwise it is the children
\* passthrough.
C24_WrapperIffButtonOrFrame ==
    (pc = "done" /\ entry = "parseFigmaCssToComponent") =>
        (generated.jsx.jsxStructure.kind = "frame-content"
            <=> \E i \in 1..Len(rules) :
                   IsSynthesized(rules[i]) /\ NamesButtonOrFrame(rules[i].figmaComponent))

\* C24 on the texts without the label 'frame' in lower case
C24_ExceptLowerCaseFrame == Includes(css, <<"/","*"," ","f","r","a","m","e"," ","*",
        "/">>) \/ C24_WrapperIffButtonOrFrame

\* ------------------------------------------------------------------ claims on the element types

ElementTypes ==
    { "button", "header", "footer", "nav", "main", "section", "article", "aside", "h1",
      "h2", "h3", "p", "span", "img", "a", "ul", "li", "div" }

\* C28: for every element type of the table there is a selector for which the scan
\* returns that type (stated where the scan has answered for some selector).
C28_EveryTypeReachable ==
    (inference # <<>> /\ inference.elementType # "none") =>
        \A t \in ElementTypes : \E s \in TextsOf(Words, MaxWords) : InferElementType(s) = t

\* the scan never answers 'span', and a selector that holds 'span' is answered by one of
\* the rows above the row of 'span'
C28_SpanShadowed ==
    (inference # <<>> /\ inference.elementType # "none") =>
        /\ inference.elementType # "span"
        /\ Includes(inference.selector, <<"s","p","a","n">>) =>
               inference.elementType \in { "button", "header", "footer", "nav", "main", "section",
                        "article", "aside", "h1", "h2", "h3", "p" }
\* ------------------------------------------------------------------ claims on the processing jobs

StartsProcessing ==
    \A id \in DOMAIN jobs' : id \notin DOMAIN jobs => jobs'[id].status = "processing"

TerminalIsFinal ==
    \A id \in DOMAIN jobs : jobs[id].status \in Terminal => jobs'[id].status = jobs[id].status

Settles(id) == (id \in DOMAIN jobs) ~> (id \in DOMAIN jobs /\ jobs[id].status \in Terminal)

\* C29: a job starts in status 'processing', eventually has status 'completed' or
\* 'failed', and keeps the terminal status it has.
C29_JobLifecycle ==
    /\ [][StartsProcessing /\ TerminalIsFinal]_vars
    /\ \A id \in 1..MaxJobs : Settles(id)

\* one job failed after a later job was created, and the later job completed
C29_Witness ==
    /\ Len(jobs) = 2
    /\ jobs[1].status = "failed"
    /\ jobs[2].status = "completed"
    /\ jobs[1].type # jobs[2].type
\* ------------------------------------------------------------------ claims on the invoking paths

\* unnamed/part_005 lines 225-249: what validateCssCode throws for a text
ValidateCssCode(cssCode) ==
    IF Trim(cssCode) = <<>> THEN "CSS code is required"
    ELSE IF Len(SelectSeq(cssCode, LAMBDA c : c = "{")) # Len(SelectSeq(cssCode, LAMBDA c : c = "}"))
         THEN "mismatched braces"
         ELSE "none"

\* the texts a parser has been invoked on: the text of the hook once its call of
\* parseFigmaCssToComponent was made, the text of a css_processing job once its callback
\* went past its match (routes.ts line 720)
ParsedTexts ==
    (IF pc \in {"parsed", "threw", "done"} THEN {css} ELSE {})
        \cup {jobs[id].inputData : id \in {i \in DOMAIN jobs : jobs[i].type = "css_processing" /\ tasks[i] >= 2}}

\* C25: a parser is invoked only on a text that validateCssCode lets through: a text
\* that is not blank and has as many '{' as '}'.
C25_ValidationPrecedesCore == \A text \in ParsedTexts : ValidateCssCode(text) = "none"
\* ------------------------------------------------------------------ claims on the polling of a job

NoRequestOnceSettled ==
    \A id \in DOMAIN polls : polls[id].settled => polls'[id].requests = polls[id].requests

StaysNotPolling ==
    (hook.jobId # 0 /\ polls[hook.jobId].settled) => ~hook'.isPolling

OnCompleteOnce == \A id \in DOMAIN polls : polls[id].completions <= 1

\* C30: once a poll has seen a job completed or failed, or a poll request has failed, no
\* getJob request is issued for the job any more and isPolling stays false; onComplete
\* is called at most once for a job.
C30_PollingStops == [][NoRequestOnceSettled /\ StaysNotPolling]_vars /\ []OnCompleteOnce
====
